---- MODULE Spec2Model ----
(***************************************************************************)
(* Key-date / recurrence computation of the contract manager, as coded in  *)
(* the calendar view (generateEventsFromAgreement, Calendar.load), the     *)
(* PATCH route (buildKeyDates), the dashboard agenda, the ICS export and   *)
(* the reminder cron (nextEvents).                                         *)
(*                                                                         *)
(* A JavaScript Date is modelled by its time value: an integer number of   *)
(* ticks of local time, TicksPerDay ticks to the calendar day, day 0 being *)
(* 1970-01-01.  All the code uses local-time getters and setters, so the   *)
(* time zone is a fixed offset that cancels out.  A yyyy-mm-dd string is   *)
(* modelled by the triple <<y, m, d>>: the zero-padded string order is the *)
(* lexicographic order of the triples.  A nullable column is a sequence of *)
(* length at most one: <<>> is null and <<v>> is the value v.              *)
(*                                                                         *)
(* The PATCH handler is modelled with the two tables it writes: the row of *)
(* the agreement and its key_dates rows.  Each statement sent to the       *)
(* database is one step, and a statement whose error the handler only logs *)
(* may fail.                                                               *)
(***************************************************************************)
EXTENDS Integers, Sequences, FiniteSets, TLC

\* ------------------------------------------------------------------------
\* Bounds of the model
\* ------------------------------------------------------------------------

\* resolution of the time of day: tick 0 is local midnight
TicksPerDay == 2

\* a small safety cap passed explicitly to generateEventsFromAgreement
SmallCap == 3

\* largest number of agreements returned by GET /api/agreements
MaxAgreements == 2

\* largest number of PATCH requests served in one behaviour
MaxRequests == 2

\* runs of the digest cron
MaxRuns == 2

\* changes of the displayed month of the calendar view
MaxChanges == 2

\* ------------------------------------------------------------------------
\* Program constants
\* ------------------------------------------------------------------------

\* cap: number = 36
DefaultCap == 36

\* ... : 12 in the cadence expression
DefaultFreq == 12

\* guard < 120 in buildKeyDates, the agenda and nextEvents
LongGuard == 120

\* guard < 24 in the ICS export
IcsGuard == 24

\* buildKeyDates(a, monthsAhead = 60)
MonthsAhead == 60

\* horizonMonths = 12
HorizonMonths == 12

\* ------------------------------------------------------------------------
\* Nullable values
\* ------------------------------------------------------------------------

Null == <<>>

Some(v) == <<v>>

IsNull(x) == x = <<>>

Val(x) == x[1]

\* ------------------------------------------------------------------------
\* JavaScript Date (local time), ECMAScript MakeDay / getters / setters
\* ------------------------------------------------------------------------

\* day number of the civil date y-m-d, m in 1..12, d any integer
DaysFromCivil(y, m, d) ==
    LET yy  == IF m <= 2 THEN y - 1 ELSE y
        era == yy \div 400
        yoe == yy - era * 400
        mp  == IF m > 2 THEN m - 3 ELSE m + 9
        doy == (153 * mp + 2) \div 5 + d - 1
        doe == yoe * 365 + yoe \div 4 - yoe \div 100 + doy
    IN  era * 146097 + doe - 719468

\* the civil date <<y, m, d>> of a day number
CivilFromDays(n) ==
    LET z   == n + 719468
        era == z \div 146097
        doe == z - era * 146097
        yoe == (doe - doe \div 1460 + doe \div 36524 - doe \div 146096) \div 365
        doy == doe - (365 * yoe + yoe \div 4 - yoe \div 100)
        mp  == (5 * doy + 2) \div 153
        d   == doy - (153 * mp + 2) \div 5 + 1
        m   == IF mp < 10 THEN mp + 3 ELSE mp - 9
        y   == yoe + era * 400 + (IF m <= 2 THEN 1 ELSE 0)
    IN  <<y, m, d>>

\* MakeDay(year, month, date): month is 0-based and may lie outside 0..11,
\* date may lie outside the month; both carry
MakeDay(year, month, date) ==
    DaysFromCivil(year + month \div 12, (month % 12) + 1, 1) + date - 1

DayOf(t) == t \div TicksPerDay

TimeOfDay(t) == t % TicksPerDay

getFullYear(t) == CivilFromDays(DayOf(t))[1]

\* 0-based month
getMonth(t) == CivilFromDays(DayOf(t))[2] - 1

getDate(t) == CivilFromDays(DayOf(t))[3]

\* new Date(y, m, d): local midnight
NewDate(y, m, d) == MakeDay(y, m, d) * TicksPerDay

\* d.setMonth(m): keeps the day of month and the time of day
setMonth(t, month) ==
    MakeDay(getFullYear(t), month, getDate(t)) * TicksPerDay + TimeOfDay(t)

\* d.setDate(n): keeps the time of day
setDate(t, date) ==
    MakeDay(getFullYear(t), getMonth(t), date) * TicksPerDay + TimeOfDay(t)

\* ------------------------------------------------------------------------
\* date helpers of the source
\* ------------------------------------------------------------------------

toISO(t) == <<getFullYear(t), getMonth(t) + 1, getDate(t)>>

\* parseISO without the shift to the 0-based month
parseISO_MonthOneBased(s) ==
    NewDate(s[1], IF s[2] = 0 THEN 1 ELSE s[2], IF s[3] = 0 THEN 1 ELSE s[3])

\* (m || 1) - 1 and d || 1
parseISO(s) ==
    NewDate(s[1], (IF s[2] = 0 THEN 1 ELSE s[2]) - 1, IF s[3] = 0 THEN 1 ELSE s[3])

\* addMonths that clamps the day to the last day of the target month
addMonths_Clamp(dt, months) ==
    LET first == MakeDay(getFullYear(dt), getMonth(dt) + months, 1)
        len   == MakeDay(getFullYear(dt), getMonth(dt) + months + 1, 1) - first
        day   == IF getDate(dt) > len THEN len ELSE getDate(dt)
    IN  (first + day - 1) * TicksPerDay + TimeOfDay(dt)

\* d.setMonth(d.getMonth() + months) on a copy of dt
addMonths(dt, months) == setMonth(dt, getMonth(dt) + months)

addDays(dt, days) == setDate(dt, getDate(dt) + days)

\* a.date < b.date on zero-padded yyyy-mm-dd strings
IsoLess(s, t) ==
    \/ s[1] < t[1]
    \/ s[1] = t[1] /\ s[2] < t[2]
    \/ s[1] = t[1] /\ s[2] = t[2] /\ s[3] < t[3]

\* ------------------------------------------------------------------------
\* Agreement rows
\* ------------------------------------------------------------------------

\* Auto with null taken for true
Auto_NullIsTrue(a) == IF IsNull(a.auto_renews) THEN TRUE ELSE Val(a.auto_renews)

\* !!a.auto_renews
Auto(a) == ~IsNull(a.auto_renews) /\ Val(a.auto_renews)

\* Freq that defaults null only (?? 12) and keeps 0 and negative values
Freq_NullOnly(a) ==
    IF IsNull(a.renewal_frequency_months)
    THEN DefaultFreq
    ELSE Val(a.renewal_frequency_months)

\* a.renewal_frequency_months && a.renewal_frequency_months > 0
\*   ? a.renewal_frequency_months : 12
Freq(a) ==
    IF ~IsNull(a.renewal_frequency_months) /\ Val(a.renewal_frequency_months) > 0
    THEN Val(a.renewal_frequency_months)
    ELSE DefaultFreq

\* a.notice_days ?? 0
NoticeDays(a) == IF IsNull(a.notice_days) THEN 0 ELSE Val(a.notice_days)

\* endDate >= windowStart && endDate <= windowEnd
InWindow(t, ws, we) == t >= ws /\ t <= we

\* ------------------------------------------------------------------------
\* generateEventsFromAgreement (calendar view)
\* ------------------------------------------------------------------------

\* the "termination" event literal
TermEvent(a) ==
    [id |-> <<a.id, "term", Val(a.end_on)>>, date |-> Val(a.end_on),
     type |-> "termination", agreementId |-> a.id]

\* the "renewal" event literal
RenewalEvent(a, renewal) ==
    [id |-> <<a.id, "renewal", toISO(renewal)>>, date |-> toISO(renewal),
     type |-> "renewal", agreementId |-> a.id]

\* the "notice" event literal
NoticeEvent(a, noticeDate, renewal) ==
    [id |-> <<a.id, "notice", toISO(noticeDate), toISO(renewal)>>,
     date |-> toISO(noticeDate), type |-> "notice", agreementId |-> a.id]

\* the events pushed before the loops: the term end when it is in the window
GenTermEvents(a, ws, we) ==
    IF InWindow(parseISO(Val(a.end_on)), ws, we) THEN <<TermEvent(a)>> ELSE <<>>

\* GenFFCond that also steps over a renewal falling on windowStart
GenFFCond_Inclusive(r, g, ws, c) == r <= ws /\ g < c

\* while (renewal < windowStart && guard < cap)
GenFFCond(r, g, ws, c) == r < ws /\ g < c

\* GenEnumCond without the guard
GenEnumCond_NoGuard(r, g, we, c) == r <= we

\* GenEnumCond that stops before a renewal falling on windowEnd
GenEnumCond_Exclusive(r, g, we, c) == r < we /\ g < c

\* while (renewal <= windowEnd && guard < cap)
GenEnumCond(r, g, we, c) == r <= we /\ g < c

\* GenEnumEvents with the notice tested against windowEnd only
GenEnumEvents_NoStartCheck(a, r, ws, we) ==
    <<RenewalEvent(a, r)>> \o
    (IF NoticeDays(a) > 0 /\ addDays(r, -NoticeDays(a)) <= we
     THEN <<NoticeEvent(a, addDays(r, -NoticeDays(a)), r)>>
     ELSE <<>>)

\* GenEnumEvents with the notice placed noticeDays after the renewal
GenEnumEvents_NoticeAfter(a, r, ws, we) ==
    <<RenewalEvent(a, r)>> \o
    (IF NoticeDays(a) > 0 /\ InWindow(addDays(r, NoticeDays(a)), ws, we)
     THEN <<NoticeEvent(a, addDays(r, NoticeDays(a)), r)>>
     ELSE <<>>)

\* the events pushed by one pass of the second loop
GenEnumEvents(a, r, ws, we) ==
    <<RenewalEvent(a, r)>> \o
    (IF NoticeDays(a) > 0 /\ InWindow(addDays(r, -NoticeDays(a)), ws, we)
     THEN <<NoticeEvent(a, addDays(r, -NoticeDays(a)), r)>>
     ELSE <<>>)

\* the first loop: the cursor and the guard it leaves
RECURSIVE GenFF(_, _, _, _, _)
GenFF(a, r, g, ws, c) ==
    IF GenFFCond(r, g, ws, c)
    THEN GenFF(a, addMonths(r, Freq(a)), g + 1, ws, c)
    ELSE <<r, g>>

\* the second loop: the events it pushes
RECURSIVE GenEnum(_, _, _, _, _, _)
GenEnum(a, r, g, ws, we, c) ==
    IF GenEnumCond(r, g, we, c)
    THEN GenEnumEvents(a, r, ws, we)
         \o GenEnum(a, addMonths(r, Freq(a)), g + 1, ws, we, c)
    ELSE <<>>

\* the value the function returns
generateEventsFromAgreement(a, ws, we, c) ==
    IF IsNull(a.end_on) THEN <<>>
    ELSE GenTermEvents(a, ws, we) \o
         (IF ~Auto(a) THEN <<>>
          ELSE LET s == GenFF(a, parseISO(Val(a.end_on)), 0, ws, c)
               IN  GenEnum(a, s[1], s[2], ws, we, c))

\* ------------------------------------------------------------------------
\* Calendar.load: merge and sort
\* ------------------------------------------------------------------------

\* InsertByDate of a sort that is not stable: x goes before its equals
RECURSIVE InsertByDate_BeforeEqual(_, _)
InsertByDate_BeforeEqual(sorted, x) ==
    IF sorted = <<>> THEN <<x>>
    ELSE IF ~IsoLess(Head(sorted).date, x.date)
         THEN <<x>> \o sorted
         ELSE <<Head(sorted)>> \o InsertByDate_BeforeEqual(Tail(sorted), x)

\* Array.prototype.sort is stable: x goes after the elements that are not
\* greater than it
RECURSIVE InsertByDate(_, _)
InsertByDate(sorted, x) ==
    IF sorted = <<>> THEN <<x>>
    ELSE IF IsoLess(x.date, Head(sorted).date)
         THEN <<x>> \o sorted
         ELSE <<Head(sorted)>> \o InsertByDate(Tail(sorted), x)

\* all.sort((a, b) => (a.date < b.date ? -1 : a.date > b.date ? 1 : 0))
RECURSIVE SortByDate(_)
SortByDate(s) ==
    IF s = <<>> THEN <<>>
    ELSE InsertByDate(SortByDate(SubSeq(s, 1, Len(s) - 1)), s[Len(s)])

\* ------------------------------------------------------------------------
\* buildKeyDates (PATCH route)
\* ------------------------------------------------------------------------

KeyRow(a, kind, t) ==
    [agreement_id |-> a.id, event_kind |-> kind, occurs_on |-> toISO(t)]

\* termination at the original end
KdTermRows(a, ws, we) ==
    IF InWindow(parseISO(Val(a.end_on)), ws, we)
    THEN <<KeyRow(a, "termination", parseISO(Val(a.end_on)))>>
    ELSE <<>>

\* while (renewal <= windowEnd && guard < 120)
KdCond(r, g, we) == r <= we /\ g < LongGuard

\* KdRows that leaves out a renewal falling on windowStart
KdRows_StrictStart(a, r, ws, we) ==
    IF r > ws
    THEN <<KeyRow(a, "renewal", r)>> \o
         (IF NoticeDays(a) > 0 /\ InWindow(addDays(r, -NoticeDays(a)), ws, we)
          THEN <<KeyRow(a, "notice", addDays(r, -NoticeDays(a)))>>
          ELSE <<>>)
    ELSE <<>>

\* the rows pushed by one pass of the loop
KdRows(a, r, ws, we) ==
    IF r >= ws
    THEN <<KeyRow(a, "renewal", r)>> \o
         (IF NoticeDays(a) > 0 /\ InWindow(addDays(r, -NoticeDays(a)), ws, we)
          THEN <<KeyRow(a, "notice", addDays(r, -NoticeDays(a)))>>
          ELSE <<>>)
    ELSE <<>>

\* the loop of buildKeyDates: the rows it pushes
RECURSIVE KdLoop(_, _, _, _, _)
KdLoop(a, r, g, ws, we) ==
    IF KdCond(r, g, we)
    THEN KdRows(a, r, ws, we) \o KdLoop(a, addMonths(r, Freq(a)), g + 1, ws, we)
    ELSE <<>>

\* the rows buildKeyDates(a) returns when new Date() is now
buildKeyDates(a, now) ==
    IF IsNull(a.end_on) THEN <<>>
    ELSE KdTermRows(a, now, addMonths(now, MonthsAhead)) \o
         (IF ~Auto(a) THEN <<>>
          ELSE KdLoop(a, parseISO(Val(a.end_on)), 0, now,
                      addMonths(now, MonthsAhead)))

\* ------------------------------------------------------------------------
\* Dashboard agenda and GET agenda
\* ------------------------------------------------------------------------

\* Math.round(n / d) for d > 0
Round(n, d) == (2 * n + d) \div (2 * d)

\* local midnight of the calendar day of t
d0(t) == NewDate(getFullYear(t), getMonth(t), getDate(t))

\* diffInDays on the two time values as they are, rounded down
diffInDays_Truncated(future, base) == (future - base) \div TicksPerDay

\* Math.round of the difference of the two local midnights, in days
diffInDays(future, base) == Round(d0(future) - d0(base), TicksPerDay)

AgendaItem(a, kind, t, d) ==
    [id |-> <<a.id, kind, toISO(t)>>, date |-> toISO(t), daysUntil |-> d,
     type |-> IF kind = "term" THEN "termination" ELSE kind,
     auto_renews |-> Auto(a), notice_days |-> NoticeDays(a)]

\* the non-renewing branch: the term end when it is not in the past
AgendaTermItems(a, td) ==
    LET end == parseISO(Val(a.end_on))
    IN  IF diffInDays(end, td) >= 0
        THEN <<AgendaItem(a, "term", end, diffInDays(end, td))>>
        ELSE <<>>

\* while (next < today && guard < 120)
AgendaFFCond(r, g, td) == r < td /\ g < LongGuard

\* the items pushed after the fast-forward loop
AgendaRenewalItems(a, next, td) ==
    LET n == setDate(next, getDate(next) - NoticeDays(a))
    IN  IF diffInDays(next, td) >= 0
        THEN <<AgendaItem(a, "renewal", next, diffInDays(next, td))>> \o
             (IF NoticeDays(a) > 0 /\ diffInDays(n, td) >= 0
              THEN <<AgendaItem(a, "notice", n, diffInDays(n, td))>>
              ELSE <<>>)
        ELSE <<>>

\* a.daysUntil - b.daysUntil || (a.date < b.date ? -1 : 1) is negative
AgendaBefore(x, y) ==
    \/ x.daysUntil < y.daysUntil
    \/ x.daysUntil = y.daysUntil /\ IsoLess(x.date, y.date)

RECURSIVE InsertAgenda(_, _)
InsertAgenda(sorted, x) ==
    IF sorted = <<>> THEN <<x>>
    ELSE IF AgendaBefore(x, Head(sorted))
         THEN <<x>> \o sorted
         ELSE <<Head(sorted)>> \o InsertAgenda(Tail(sorted), x)

\* out.sort(...)
RECURSIVE SortAgenda(_)
SortAgenda(s) ==
    IF s = <<>> THEN <<>>
    ELSE InsertAgenda(SortAgenda(SubSeq(s, 1, Len(s) - 1)), s[Len(s)])

\* the four sections of the dashboard: Today, Next 30, 31-60, 61+
GroupToday(items) == SelectSeq(items, LAMBDA i : i.daysUntil = 0)

\* GroupOut30 that starts at day 0
GroupOut30_FromZero(items) ==
    SelectSeq(items, LAMBDA i : i.daysUntil >= 0 /\ i.daysUntil <= 30)

GroupOut30(items) ==
    SelectSeq(items, LAMBDA i : i.daysUntil > 0 /\ i.daysUntil <= 30)

GroupOut60(items) ==
    SelectSeq(items, LAMBDA i : i.daysUntil > 30 /\ i.daysUntil <= 60)

GroupOut90(items) == SelectSeq(items, LAMBDA i : i.daysUntil > 60)

\* ------------------------------------------------------------------------
\* ICS export
\* ------------------------------------------------------------------------

\* horizon.setMonth(horizon.getMonth() + horizonMonths)
Horizon(td) == setMonth(td, getMonth(td) + HorizonMonths)

IcsEvent(a, kind, t) ==
    [uid |-> <<a.id, kind, toISO(t)>>, summary |-> kind, dt |-> t]

\* else if (end >= today && end <= horizon)
IcsTermEvents(a, td) ==
    LET end == parseISO(Val(a.end_on))
    IN  IF end >= td /\ end <= Horizon(td)
        THEN <<IcsEvent(a, "term", end)>>
        ELSE <<>>

\* while (next <= horizon && guard < 24)
IcsCond(r, g, td) == r <= Horizon(td) /\ g < IcsGuard

\* the events pushed by one pass of the loop
IcsEvents(a, next, td) ==
    LET n == setDate(next, getDate(next) - NoticeDays(a))
    IN  IF next >= td
        THEN <<IcsEvent(a, "renewal", next)>> \o
             (IF NoticeDays(a) > 0 /\ n >= td
              THEN <<IcsEvent(a, "notice", n)>>
              ELSE <<>>)
        ELSE <<>>

\* toICSDate: the digits yyyymmdd, read as a decimal number
toICSDate(t) == getFullYear(t) * 10000 + (getMonth(t) + 1) * 100 + getDate(t)

Line(tag, val) == [tag |-> tag, val |-> val]

\* VEvent whose DTEND is the DTSTART digits plus one
VEvent_EndByDigits(e) ==
    <<Line("BEGIN", "VEVENT"),
      Line("UID", e.uid),
      Line("SUMMARY", e.summary),
      Line("DTSTART", toICSDate(e.dt)),
      Line("DTEND", toICSDate(e.dt) + 1),
      Line("DESCRIPTION", ""),
      Line("END", "VEVENT")>>

\* one VEVENT block; DTEND is the day after e.dt
VEvent(e) ==
    <<Line("BEGIN", "VEVENT"),
      Line("UID", e.uid),
      Line("SUMMARY", e.summary),
      Line("DTSTART", toICSDate(e.dt)),
      Line("DTEND", toICSDate(NewDate(getFullYear(e.dt), getMonth(e.dt),
                                      getDate(e.dt) + 1))),
      Line("DESCRIPTION", ""),
      Line("END", "VEVENT")>>

RECURSIVE VEvents(_)
VEvents(es) ==
    IF es = <<>> THEN <<>> ELSE VEvent(Head(es)) \o VEvents(Tail(es))

\* the lines between the VCALENDAR header and footer, header and footer included
Serialize(es) ==
    <<Line("BEGIN", "VCALENDAR"), Line("VERSION", "2.0"),
      Line("PRODID", "-//ContractHub//Renewals//EN")>>
    \o VEvents(es) \o <<Line("END", "VCALENDAR")>>

\* ------------------------------------------------------------------------
\* reminder cron: nextEvents and the 30/60/90 selection
\* ------------------------------------------------------------------------

CronEvent(kind, t) == [kind |-> kind, date |-> t]

\* if (end && end >= today) events.push(TERM_END)
NeTermEvents(a, td) ==
    IF parseISO(Val(a.end_on)) >= td
    THEN <<CronEvent("TERM_END", parseISO(Val(a.end_on)))>>
    ELSE <<>>

\* while (renewal < today && guard < 120)
NeFFCond(r, g, td) == r < td /\ g < LongGuard

\* the events pushed after the fast-forward loop
NeRenewalEvents(a, r, td) ==
    <<CronEvent("RENEWAL", r)>> \o
    (IF ~IsNull(a.notice_days) /\ Val(a.notice_days) > 0
        /\ addDays(r, -Val(a.notice_days)) >= td
     THEN <<CronEvent("NOTICE_DEADLINE", addDays(r, -Val(a.notice_days)))>>
     ELSE <<>>)

\* events.filter(e => e.date >= today)
RECURSIVE NeFilter(_, _)
NeFilter(es, td) ==
    IF es = <<>> THEN <<>>
    ELSE (IF Head(es).date >= td THEN <<Head(es)>> ELSE <<>>)
         \o NeFilter(Tail(es), td)

\* CronRows that keeps every event up to 90 days out
RECURSIVE CronRows_Within90(_, _, _)
CronRows_Within90(a, es, td) ==
    IF es = <<>> THEN <<>>
    ELSE (IF diffInDays(Head(es).date, td) <= 90
          THEN <<[user_id |-> Val(a.user_id), agreement |-> a.id,
                  kind |-> Head(es).kind, on |-> toISO(Head(es).date),
                  inDays |-> diffInDays(Head(es).date, td)]>>
          ELSE <<>>)
         \o CronRows_Within90(a, Tail(es), td)

\* if (d === 30 || d === 60 || d === 90) push a row for the user
RECURSIVE CronRows(_, _, _)
CronRows(a, es, td) ==
    IF es = <<>> THEN <<>>
    ELSE (IF diffInDays(Head(es).date, td) \in {30, 60, 90}
          THEN <<[user_id |-> Val(a.user_id), agreement |-> a.id,
                  kind |-> Head(es).kind, on |-> toISO(Head(es).date),
                  inDays |-> diffInDays(Head(es).date, td)]>>
          ELSE <<>>)
         \o CronRows(a, Tail(es), td)

\* ------------------------------------------------------------------------
\* State
\* ------------------------------------------------------------------------

VARIABLES
    site,         \* what runs: calendar, keydates, agenda, ics, cron; patch, patch2,
                  \* digest, effect for the handlers, the digest and the effect
    agreements,   \* the agreement rows, in the order they were fetched
    idx,          \* position in agreements of the row being processed
    today,        \* new Date() of the call site (local midnight for the cron)
    windowStart,  \* window of the calendar view and of buildKeyDates
    windowEnd,
    cap,          \* the cap parameter of generateEventsFromAgreement
    pc,           \* start, ff, enum, ret, done
    renewal,      \* the loop cursor (renewal / next)
    guard,        \* the loop guard
    evts,         \* events of the row being processed
    all           \* result of the call site

VARIABLES
    store,        \* the agreements row of the agreement, Null when there is none
    keyDates,     \* the key_dates rows of the agreement, in insertion order
    ppc,          \* per handler run, its position: idle, load, update, delete, insert
    req,          \* per handler run, the request being served: body and x-user-id
    existing,     \* per handler run, the row PATCH loaded
    updated,      \* per handler run, the row the update returned
    resp,         \* per handler run, the last response
    served,       \* number of requests answered
    file          \* whether the uploaded document of the agreement is in the bucket

patchVars == <<store, keyDates, ppc, req, existing, updated, resp, served, file>>

VARIABLES
    reminders,    \* the rows of email_reminders_sent, in insertion order
    dpc,          \* position of the digest cron: idle, users
    dryRun,       \* the dryRun parameter of the run
    dqueue,       \* the users the run has still to serve
    results,      \* results of the run
    dlog,         \* per user served, the number of rows the upsert returned, -1 for an error
    dresp,        \* status of the last answer of the cron
    runs          \* number of runs answered

digestVars == <<reminders, dpc, dryRun, dqueue, results, dlog, dresp, runs>>

VARIABLES
    displayed,    \* the month the calendar view displays
    pending,      \* the view has rendered and its effect is still to run
    loads,        \* the runs of the effect, in the order they started
    events,       \* the state events of the view, Null for the empty list
    loading,      \* the state loading of the view
    error,        \* the state error of the view
    changes       \* number of changes of the displayed month

effectVars == <<displayed, pending, loads, events, loading, error, changes>>

vars == <<site, agreements, idx, today, windowStart, windowEnd, cap, pc,
          renewal, guard, evts, all, patchVars, digestVars, effectVars>>

inputs == <<site, agreements, today, windowStart, windowEnd, cap>>

\* ------------------------------------------------------------------------
\* Inputs
\* ------------------------------------------------------------------------

EndOnValues ==
    {Null, Some(<<2025, 1, 15>>), Some(<<2024, 1, 31>>), Some(<<2024, 2, 29>>),
     Some(<<2022, 11, 30>>), Some(<<2019, 6, 15>>)}

AutoValues == {Null, Some(TRUE), Some(FALSE)}

NoticeValues == {Null, Some(0), Some(30), Some(31)}

FreqValues == {Null, Some(0), Some(-3), Some(1), Some(12)}

Agreement(i, e, au, n, f) ==
    [id |-> i, user_id |-> Some(1), end_on |-> e, auto_renews |-> au,
     notice_days |-> n, renewal_frequency_months |-> f]

AgreementRows ==
    {Agreement(1, e, au, n, f) :
        e \in EndOnValues, au \in AutoValues, n \in NoticeValues, f \in FreqValues}

\* a Date at tick k of the calendar day iso
At(iso, k) == parseISO(iso) + k

\* windows handed to generateEventsFromAgreement
Windows ==
    {<<At(<<2025, 1, 1>>, 0), At(<<2026, 2, 1>>, 0)>>,
     <<At(<<2024, 9, 1>>, 0), At(<<2025, 10, 1>>, 0)>>,
     <<At(<<2025, 1, 15>>, TicksPerDay - 1), At(<<2025, 12, 16>>, TicksPerDay - 1)>>,
     <<At(<<2025, 1, 15>>, 0), At(<<2025, 1, 15>>, 0)>>,
     <<At(<<2025, 1, 15>>, 0), At(<<2025, 12, 16>>, 0)>>}

Caps == {SmallCap, DefaultCap}

\* values of new Date()
Nows ==
    {At(<<2025, 1, 15>>, k) : k \in 0..(TicksPerDay - 1)}
    \cup {At(<<2024, 12, 16>>, TicksPerDay - 1), At(<<2023, 12, 1>>, 0)}

Sites == {"calendar", "keydates", "agenda", "ics", "cron"}

\* the inputs of one call site
InitSite(s, w, c, n) ==
    /\ site = s
    /\ today = (IF s = "cron" THEN d0(n) ELSE n)
    /\ windowStart = (IF s = "calendar" THEN w[1] ELSE n)
    /\ windowEnd = (IF s = "calendar" THEN w[2]
                    ELSE IF s = "keydates" THEN addMonths(n, MonthsAhead)
                    ELSE IF s = "ics" THEN Horizon(n)
                    ELSE n)
    /\ cap = (IF s = "calendar" THEN c
              ELSE IF s = "ics" THEN IcsGuard ELSE LongGuard)

InitLocals ==
    /\ idx = 1
    /\ pc = "start"
    /\ renewal = 0
    /\ guard = 0
    /\ evts = <<>>
    /\ all = <<>>

\* a response that was not sent
NoResponse ==
    [op |-> "", status |-> 0, ok |-> FALSE, key_dates_inserted |-> 0, error |-> ""]

\* a request that was not received
NoRequest == [body |-> <<>>, user |-> Null]

\* the handler runs that may be in progress at the same time
Procs == {"a", "b"}

\* no request is being served
PatchIdle ==
    /\ ppc = [p \in Procs |-> "idle"]
    /\ req = [p \in Procs |-> NoRequest]
    /\ existing = [p \in Procs |-> Null]
    /\ updated = [p \in Procs |-> Null]
    /\ resp = [p \in Procs |-> NoResponse]
    /\ served = 0

\* no digest run has started
NoDigest ==
    /\ reminders = <<>>
    /\ dpc = "idle"
    /\ dryRun = FALSE
    /\ dqueue = <<>>
    /\ results = <<>>
    /\ dlog = <<>>
    /\ dresp = 0
    /\ runs = 0

\* the calendar view is not mounted
NoEffect ==
    /\ displayed = 0
    /\ pending = FALSE
    /\ loads = <<>>
    /\ events = Null
    /\ loading = FALSE
    /\ error = Null
    /\ changes = 0

\* the call sites that only read: the tables play no part
NoTables == store = Null /\ keyDates = <<>> /\ file = FALSE /\ PatchIdle

Init ==
    /\ \E a \in AgreementRows : agreements = <<a>>
    /\ \/ \E w \in Windows, c \in Caps : InitSite("calendar", w, c, w[1])
       \/ \E s \in Sites \ {"calendar"}, n \in Nows :
             InitSite(s, <<n, n>>, DefaultCap, n)
    /\ InitLocals
    /\ NoTables
    /\ NoDigest
    /\ NoEffect

\* the row being processed
Cur == agreements[idx]

AtRow(s) == site = s /\ pc = "start" /\ idx <= Len(agreements)

\* ------------------------------------------------------------------------
\* generateEventsFromAgreement, step by step
\* ------------------------------------------------------------------------

\* if (!a.end_on) return evts
GenNoEndOn ==
    /\ AtRow("calendar")
    /\ IsNull(Cur.end_on)
    /\ evts' = <<>>
    /\ pc' = "ret"
    /\ UNCHANGED <<inputs, patchVars, digestVars, effectVars, idx, renewal, guard, all>>

\* if (!auto) return evts
GenNoAuto ==
    /\ AtRow("calendar")
    /\ ~IsNull(Cur.end_on)
    /\ ~Auto(Cur)
    /\ evts' = GenTermEvents(Cur, windowStart, windowEnd)
    /\ pc' = "ret"
    /\ UNCHANGED <<inputs, patchVars, digestVars, effectVars, idx, renewal, guard, all>>

\* GenBegin with a guard that is not a local of the call: it is never reset
GenBegin_KeepGuard ==
    /\ AtRow("calendar")
    /\ ~IsNull(Cur.end_on)
    /\ Auto(Cur)
    /\ evts' = GenTermEvents(Cur, windowStart, windowEnd)
    /\ renewal' = parseISO(Val(Cur.end_on))
    /\ pc' = "ff"
    /\ UNCHANGED <<inputs, patchVars, digestVars, effectVars, idx, guard, all>>

\* let renewal = new Date(endDate); let guard = 0
GenBegin ==
    /\ AtRow("calendar")
    /\ ~IsNull(Cur.end_on)
    /\ Auto(Cur)
    /\ evts' = GenTermEvents(Cur, windowStart, windowEnd)
    /\ renewal' = parseISO(Val(Cur.end_on))
    /\ guard' = 0
    /\ pc' = "ff"
    /\ UNCHANGED <<inputs, patchVars, digestVars, effectVars, idx, all>>

GenFastForward ==
    /\ site = "calendar" /\ pc = "ff"
    /\ GenFFCond(renewal, guard, windowStart, cap)
    /\ renewal' = addMonths(renewal, Freq(Cur))
    /\ guard' = guard + 1
    /\ UNCHANGED <<inputs, patchVars, digestVars, effectVars, idx, pc, evts, all>>

GenFFExit ==
    /\ site = "calendar" /\ pc = "ff"
    /\ ~GenFFCond(renewal, guard, windowStart, cap)
    /\ pc' = "enum"
    /\ UNCHANGED <<inputs, patchVars, digestVars, effectVars, idx, renewal, guard, evts, all>>

GenEnumerate ==
    /\ site = "calendar" /\ pc = "enum"
    /\ GenEnumCond(renewal, guard, windowEnd, cap)
    /\ evts' = evts \o GenEnumEvents(Cur, renewal, windowStart, windowEnd)
    /\ renewal' = addMonths(renewal, Freq(Cur))
    /\ guard' = guard + 1
    /\ UNCHANGED <<inputs, patchVars, digestVars, effectVars, idx, pc, all>>

\* return evts
GenReturn ==
    /\ site = "calendar" /\ pc = "enum"
    /\ ~GenEnumCond(renewal, guard, windowEnd, cap)
    /\ pc' = "ret"
    /\ UNCHANGED <<inputs, patchVars, digestVars, effectVars, idx, renewal, guard, evts, all>>

\* all.push(...evts), and on to the next row
LoadPush ==
    /\ site = "calendar" /\ pc = "ret"
    /\ all' = all \o evts
    /\ idx' = idx + 1
    /\ pc' = "start"
    /\ UNCHANGED <<inputs, patchVars, digestVars, effectVars, renewal, guard, evts>>

\* all.sort(...); setEvents(all)
LoadSort ==
    /\ site = "calendar" /\ pc = "start"
    /\ idx > Len(agreements)
    /\ all' = SortByDate(all)
    /\ pc' = "done"
    /\ UNCHANGED <<inputs, patchVars, digestVars, effectVars, idx, renewal, guard, evts>>

NextCalendar ==
    \/ GenNoEndOn \/ GenNoAuto \/ GenBegin
    \/ GenFastForward \/ GenFFExit \/ GenEnumerate \/ GenReturn
    \/ LoadPush \/ LoadSort

\* ------------------------------------------------------------------------
\* buildKeyDates, step by step
\* ------------------------------------------------------------------------

\* if (!a.end_on) return rows
KdNoEndOn ==
    /\ AtRow("keydates")
    /\ IsNull(Cur.end_on)
    /\ evts' = <<>>
    /\ pc' = "ret"
    /\ UNCHANGED <<inputs, patchVars, digestVars, effectVars, idx, renewal, guard, all>>

\* if (!auto) return rows
KdNoAuto ==
    /\ AtRow("keydates")
    /\ ~IsNull(Cur.end_on)
    /\ ~Auto(Cur)
    /\ evts' = KdTermRows(Cur, windowStart, windowEnd)
    /\ pc' = "ret"
    /\ UNCHANGED <<inputs, patchVars, digestVars, effectVars, idx, renewal, guard, all>>

KdBegin ==
    /\ AtRow("keydates")
    /\ ~IsNull(Cur.end_on)
    /\ Auto(Cur)
    /\ evts' = KdTermRows(Cur, windowStart, windowEnd)
    /\ renewal' = parseISO(Val(Cur.end_on))
    /\ guard' = 0
    /\ pc' = "enum"
    /\ UNCHANGED <<inputs, patchVars, digestVars, effectVars, idx, all>>

KdIterate ==
    /\ site = "keydates" /\ pc = "enum"
    /\ KdCond(renewal, guard, windowEnd)
    /\ evts' = evts \o KdRows(Cur, renewal, windowStart, windowEnd)
    /\ renewal' = addMonths(renewal, Freq(Cur))
    /\ guard' = guard + 1
    /\ UNCHANGED <<inputs, patchVars, digestVars, effectVars, idx, pc, all>>

\* return rows
KdReturn ==
    /\ site = "keydates" /\ pc = "enum"
    /\ ~KdCond(renewal, guard, windowEnd)
    /\ pc' = "ret"
    /\ UNCHANGED <<inputs, patchVars, digestVars, effectVars, idx, renewal, guard, evts, all>>

\* ------------------------------------------------------------------------
\* agenda, step by step
\* ------------------------------------------------------------------------

\* if (!a.end_on) continue
AgendaNoEndOn ==
    /\ AtRow("agenda")
    /\ IsNull(Cur.end_on)
    /\ evts' = <<>>
    /\ pc' = "ret"
    /\ UNCHANGED <<inputs, patchVars, digestVars, effectVars, idx, renewal, guard, all>>

\* the else branch of if (auto)
AgendaNoAuto ==
    /\ AtRow("agenda")
    /\ ~IsNull(Cur.end_on)
    /\ ~Auto(Cur)
    /\ evts' = AgendaTermItems(Cur, today)
    /\ pc' = "ret"
    /\ UNCHANGED <<inputs, patchVars, digestVars, effectVars, idx, renewal, guard, all>>

AgendaBegin ==
    /\ AtRow("agenda")
    /\ ~IsNull(Cur.end_on)
    /\ Auto(Cur)
    /\ evts' = <<>>
    /\ renewal' = parseISO(Val(Cur.end_on))
    /\ guard' = 0
    /\ pc' = "ff"
    /\ UNCHANGED <<inputs, patchVars, digestVars, effectVars, idx, all>>

AgendaFastForward ==
    /\ site = "agenda" /\ pc = "ff"
    /\ AgendaFFCond(renewal, guard, today)
    /\ renewal' = addMonths(renewal, Freq(Cur))
    /\ guard' = guard + 1
    /\ UNCHANGED <<inputs, patchVars, digestVars, effectVars, idx, pc, evts, all>>

AgendaEmit ==
    /\ site = "agenda" /\ pc = "ff"
    /\ ~AgendaFFCond(renewal, guard, today)
    /\ evts' = AgendaRenewalItems(Cur, renewal, today)
    /\ pc' = "ret"
    /\ UNCHANGED <<inputs, patchVars, digestVars, effectVars, idx, renewal, guard, all>>

\* ------------------------------------------------------------------------
\* ICS export, step by step
\* ------------------------------------------------------------------------

\* if (!a.end_on) continue
IcsNoEndOn ==
    /\ AtRow("ics")
    /\ IsNull(Cur.end_on)
    /\ evts' = <<>>
    /\ pc' = "ret"
    /\ UNCHANGED <<inputs, patchVars, digestVars, effectVars, idx, renewal, guard, all>>

IcsNoAuto ==
    /\ AtRow("ics")
    /\ ~IsNull(Cur.end_on)
    /\ ~Auto(Cur)
    /\ evts' = IcsTermEvents(Cur, today)
    /\ pc' = "ret"
    /\ UNCHANGED <<inputs, patchVars, digestVars, effectVars, idx, renewal, guard, all>>

IcsBegin ==
    /\ AtRow("ics")
    /\ ~IsNull(Cur.end_on)
    /\ Auto(Cur)
    /\ evts' = <<>>
    /\ renewal' = parseISO(Val(Cur.end_on))
    /\ guard' = 0
    /\ pc' = "enum"
    /\ UNCHANGED <<inputs, patchVars, digestVars, effectVars, idx, all>>

IcsIterate ==
    /\ site = "ics" /\ pc = "enum"
    /\ IcsCond(renewal, guard, today)
    /\ evts' = evts \o IcsEvents(Cur, renewal, today)
    /\ renewal' = addMonths(renewal, Freq(Cur))
    /\ guard' = guard + 1
    /\ UNCHANGED <<inputs, patchVars, digestVars, effectVars, idx, pc, all>>

IcsExit ==
    /\ site = "ics" /\ pc = "enum"
    /\ ~IcsCond(renewal, guard, today)
    /\ pc' = "ret"
    /\ UNCHANGED <<inputs, patchVars, digestVars, effectVars, idx, renewal, guard, evts, all>>

\* ------------------------------------------------------------------------
\* nextEvents of the reminder cron, step by step
\* ------------------------------------------------------------------------

\* nextEvents without the "&& end" test: the renewal cursor starts at new Date(null)
NeNoEndOn_EpochRenewal ==
    /\ AtRow("cron")
    /\ IsNull(Cur.end_on)
    /\ evts' = <<>>
    /\ renewal' = 0
    /\ guard' = 0
    /\ pc' = (IF Auto(Cur) THEN "ff" ELSE "ret")
    /\ UNCHANGED <<inputs, patchVars, digestVars, effectVars, idx, all>>

\* end is null: nothing is pushed
NeNoEndOn ==
    /\ AtRow("cron")
    /\ IsNull(Cur.end_on)
    /\ evts' = <<>>
    /\ pc' = "ret"
    /\ UNCHANGED <<inputs, patchVars, digestVars, effectVars, idx, renewal, guard, all>>

\* a.auto_renews is falsy
NeNoAuto ==
    /\ AtRow("cron")
    /\ ~IsNull(Cur.end_on)
    /\ ~Auto(Cur)
    /\ evts' = NeFilter(NeTermEvents(Cur, today), today)
    /\ pc' = "ret"
    /\ UNCHANGED <<inputs, patchVars, digestVars, effectVars, idx, renewal, guard, all>>

NeBegin ==
    /\ AtRow("cron")
    /\ ~IsNull(Cur.end_on)
    /\ Auto(Cur)
    /\ evts' = NeTermEvents(Cur, today)
    /\ renewal' = parseISO(Val(Cur.end_on))
    /\ guard' = 0
    /\ pc' = "ff"
    /\ UNCHANGED <<inputs, patchVars, digestVars, effectVars, idx, all>>

NeFastForward ==
    /\ site = "cron" /\ pc = "ff"
    /\ NeFFCond(renewal, guard, today)
    /\ renewal' = addMonths(renewal, Freq(Cur))
    /\ guard' = guard + 1
    /\ UNCHANGED <<inputs, patchVars, digestVars, effectVars, idx, pc, evts, all>>

\* push the renewal and its notice, then return events.filter(...)
NeEmit ==
    /\ site = "cron" /\ pc = "ff"
    /\ ~NeFFCond(renewal, guard, today)
    /\ evts' = NeFilter(evts \o NeRenewalEvents(Cur, renewal, today), today)
    /\ pc' = "ret"
    /\ UNCHANGED <<inputs, patchVars, digestVars, effectVars, idx, renewal, guard, all>>

\* ------------------------------------------------------------------------
\* collecting the rows of the call sites other than the calendar
\* ------------------------------------------------------------------------

\* the rows a call site keeps of the events of one agreement
Kept(s, a, es, td) == IF s = "cron" THEN CronRows(a, es, td) ELSE es

Collect ==
    /\ site # "calendar" /\ pc = "ret"
    /\ all' = all \o Kept(site, Cur, evts, today)
    /\ idx' = idx + 1
    /\ pc' = "start"
    /\ UNCHANGED <<inputs, patchVars, digestVars, effectVars, renewal, guard, evts>>

\* the result of a call site once every row is processed
Result(s, rows) ==
    IF s = "agenda" THEN SortAgenda(rows)
    ELSE IF s = "ics" THEN Serialize(rows)
    ELSE rows

Finish ==
    /\ site # "calendar" /\ pc = "start"
    /\ idx > Len(agreements)
    /\ all' = Result(site, all)
    /\ pc' = "done"
    /\ UNCHANGED <<inputs, patchVars, digestVars, effectVars, idx, renewal, guard, evts>>

NextOthers ==
    \/ KdNoEndOn \/ KdNoAuto \/ KdBegin \/ KdIterate \/ KdReturn
    \/ AgendaNoEndOn \/ AgendaNoAuto \/ AgendaBegin \/ AgendaFastForward \/ AgendaEmit
    \/ IcsNoEndOn \/ IcsNoAuto \/ IcsBegin \/ IcsIterate \/ IcsExit
    \/ NeNoEndOn \/ NeNoAuto \/ NeBegin \/ NeFastForward \/ NeEmit
    \/ Collect \/ Finish

Next == NextCalendar \/ NextOthers

Spec == Init /\ [][Next]_vars

\* ------------------------------------------------------------------------
\* The calendar view loading several agreements
\* ------------------------------------------------------------------------

LoadEndOnValues == {Null, Some(<<2025, 1, 15>>), Some(<<2024, 1, 31>>)}

\* the rows the agreement i may be
LoadRows(i) ==
    {Agreement(i, e, au, Some(31), Some(1)) :
        e \in LoadEndOnValues, au \in {Some(TRUE), Some(FALSE)}}

\* the responses of GET /api/agreements: rows with distinct ids, in any order
Fetches ==
    UNION {{f \in [1..n -> UNION {LoadRows(i) : i \in 1..MaxAgreements}] :
               \A j, k \in 1..n : j # k => f[j].id # f[k].id} :
           n \in 0..MaxAgreements}

\* the displayed months <<year, month>>, month 0-based
DisplayedMonths == {<<2025, 0>>, <<2025, 2>>}

\* windowStart = addMonths(new Date(year, month, 1), -6)
CalWindowStart(ym) == addMonths(NewDate(ym[1], ym[2], 1), -6)

\* windowEnd = addMonths(new Date(year, month + 1, 0), 6)
CalWindowEnd(ym) == addMonths(NewDate(ym[1], ym[2] + 1, 0), 6)

InitLoad ==
    /\ agreements \in Fetches
    /\ \E ym \in DisplayedMonths, n \in Nows :
          InitSite("calendar", <<CalWindowStart(ym), CalWindowEnd(ym)>>,
                   DefaultCap, n)
    /\ InitLocals
    /\ NoTables
    /\ NoDigest
    /\ NoEffect

SpecLoad == InitLoad /\ [][NextCalendar]_vars

\* ------------------------------------------------------------------------
\* PATCH /api/agreements/:id
\* ------------------------------------------------------------------------

\* a field of the JSON body: left out, or given with a value that may be null
Absent == <<>>

Given(x) == <<x>>

\* x ?? dflt on a nullable x
OrElse(x, dflt) == IF IsNull(x) THEN dflt ELSE x

\* body.f ?? dflt: a field left out is undefined
FieldOr(f, dflt) == IF f = Absent THEN dflt ELSE OrElse(f[1], dflt)

\* ... ?? 12 in the patch
PatchDefaultFreq == 12

\* the row after .update(patch): a key whose value is undefined is not sent,
\* so its column keeps the stored value
ApplyPatch(row, body, ex) ==
    [row EXCEPT
        !.end_on = FieldOr(body.end_on, Null),
        !.auto_renews = IF body.auto_renews = Absent THEN @ ELSE body.auto_renews[1],
        !.notice_days = FieldOr(body.notice_days, Null),
        !.renewal_frequency_months =
            FieldOr(body.renewal_frequency_months,
                    OrElse(ex.renewal_frequency_months, Some(PatchDefaultFreq)))]

\* NextResponse.json(...) of PATCH
Response(st, okay, n) ==
    [op |-> "PATCH", status |-> st, ok |-> okay, key_dates_inserted |-> n,
     error |-> ""]

\* the request bodies
Bodies ==
    [end_on : {Absent, Given(Some(<<2025, 6, 15>>))},
     auto_renews : {Absent, Given(Some(TRUE)), Given(Some(FALSE))},
     notice_days : {Absent, Given(Some(30))},
     renewal_frequency_months : {Absent, Given(Some(0))}]

\* the x-user-id header: none, the owner, somebody else
Users == {Null, Some(1), Some(2)}

\* the rows the agreement may be when the first request arrives
PatchRows ==
    {Agreement(1, e, au, Some(30), Some(12)) :
        e \in {Null, Some(<<2025, 1, 15>>)}, au \in {Some(TRUE), Some(FALSE)}}

InitPatch ==
    /\ site = "patch"
    /\ agreements = <<>>
    /\ \E k \in 0..(TicksPerDay - 1) : today = At(<<2025, 1, 15>>, k)
    /\ windowStart = today
    /\ windowEnd = addMonths(today, MonthsAhead)
    /\ cap = LongGuard
    /\ InitLocals
    /\ \/ store = Null /\ keyDates = <<>> /\ file = FALSE
       \/ \E a \in PatchRows :
             /\ store = Some(a)
             /\ keyDates \in {<<>>, buildKeyDates(a, today)}
             /\ file = TRUE
    /\ PatchIdle
    /\ NoDigest
    /\ NoEffect

\* the variables of the call sites that only read
siteVars == <<inputs, idx, pc, renewal, guard, evts, all>>

\* the handler runs of a specification: requests are served one at a time
\* at the site "patch" and two at a time at the site "patch2"
Running == IF site = "patch2" THEN Procs ELSE {"a"}

\* where requests are served one at a time, the statements on the tables and
\* the bucket may fail, and agreements are uploaded and deleted as well as
\* edited
MayFail == site = "patch"

\* the requests that arrive: any body from any user where requests are served
\* one at a time, the owner changing the end date or the renewal flag where
\* two are served at a time
Requests ==
    IF site = "patch2"
    THEN {[body |-> b, user |-> Some(1)] :
            b \in {c \in Bodies : c.notice_days = Given(Some(30))
                                   /\ c.renewal_frequency_months = Absent
                                   /\ c.auto_renews # Given(Some(FALSE))}}
    ELSE {[body |-> b, user |-> u] : b \in Bodies, u \in Users}

\* a request may start
MayStart(p) ==
    /\ p \in Running
    /\ ppc[p] = "idle"
    /\ served + Cardinality({q \in Procs : ppc[q] # "idle"}) < MaxRequests

\* the request arrives
PatchReceive(p) ==
    /\ MayStart(p)
    /\ \E r \in Requests : req' = [req EXCEPT ![p] = r]
    /\ resp' = [resp EXCEPT ![p] = NoResponse]
    /\ ppc' = [ppc EXCEPT ![p] = "load"]
    /\ UNCHANGED <<siteVars, digestVars, effectVars, file, store, keyDates, existing, updated, served>>

\* the answer is sent and the locals are gone
Answer(p, r) ==
    /\ resp' = [resp EXCEPT ![p] = r]
    /\ ppc' = [ppc EXCEPT ![p] = "idle"]
    /\ req' = [req EXCEPT ![p] = NoRequest]
    /\ existing' = [existing EXCEPT ![p] = Null]
    /\ updated' = [updated EXCEPT ![p] = Null]
    /\ served' = served + 1

\* if (getErr || !existing) return 404
PatchNotFound(p) ==
    /\ ppc[p] = "load"
    /\ IsNull(store)
    /\ Answer(p, Response(404, FALSE, 0))
    /\ UNCHANGED <<siteVars, digestVars, effectVars, file, store, keyDates>>

\* reqUserId && existing.user_id && existing.user_id !== reqUserId
Foreign(user, row) ==
    ~IsNull(user) /\ ~IsNull(row.user_id) /\ row.user_id # user

\* if (...) return 403
PatchForbidden(p) ==
    /\ ppc[p] = "load"
    /\ ~IsNull(store)
    /\ Foreign(req[p].user, Val(store))
    /\ Answer(p, Response(403, FALSE, 0))
    /\ UNCHANGED <<siteVars, digestVars, effectVars, file, store, keyDates>>

\* 1) load existing
PatchLoad(p) ==
    /\ ppc[p] = "load"
    /\ ~IsNull(store)
    /\ ~Foreign(req[p].user, Val(store))
    /\ existing' = [existing EXCEPT ![p] = store]
    /\ ppc' = [ppc EXCEPT ![p] = "update"]
    /\ UNCHANGED <<siteVars, digestVars, effectVars, file, store, keyDates, req, updated, resp, served>>

\* 2) update the agreement
PatchUpdate(p) ==
    /\ ppc[p] = "update"
    /\ ~IsNull(store)
    /\ store' = Some(ApplyPatch(Val(store), req[p].body, Val(existing[p])))
    /\ updated' = [updated EXCEPT ![p] = store']
    /\ ppc' = [ppc EXCEPT ![p] = "delete"]
    /\ UNCHANGED <<siteVars, digestVars, effectVars, file, keyDates, req, existing, resp, served>>

\* if (updErr || !updated) return 500
PatchUpdateFail(p) ==
    /\ ppc[p] = "update"
    /\ MayFail \/ IsNull(store)
    /\ Answer(p, Response(500, FALSE, 0))
    /\ UNCHANGED <<siteVars, digestVars, effectVars, file, store, keyDates>>

\* 3) delete the key_dates rows of the agreement
PatchDelete(p) ==
    /\ ppc[p] = "delete"
    /\ keyDates' = <<>>
    /\ ppc' = [ppc EXCEPT ![p] = "insert"]
    /\ UNCHANGED <<siteVars, digestVars, effectVars, file, store, req, existing, updated, resp, served>>

\* if (delErr) console.error(...): the handler goes on
PatchDeleteFail(p) ==
    /\ ppc[p] = "delete"
    /\ MayFail
    /\ ppc' = [ppc EXCEPT ![p] = "insert"]
    /\ UNCHANGED <<siteVars, digestVars, effectVars, file, store, keyDates, req, existing, updated, resp, served>>

\* newDates = buildKeyDates(updated); insert(newDates); return ok
PatchInsert(p) ==
    /\ ppc[p] = "insert"
    /\ LET newDates == buildKeyDates(Val(updated[p]), today)
       IN  /\ Len(newDates) > 0
           /\ keyDates' = keyDates \o newDates
           /\ Answer(p, Response(200, TRUE, Len(newDates)))
    /\ UNCHANGED <<siteVars, digestVars, effectVars, file, store>>

\* if (insErr) console.error(...); return ok
PatchInsertFail(p) ==
    /\ ppc[p] = "insert"
    /\ MayFail
    /\ LET newDates == buildKeyDates(Val(updated[p]), today)
       IN  /\ Len(newDates) > 0
           /\ Answer(p, Response(200, TRUE, Len(newDates)))
    /\ UNCHANGED <<siteVars, digestVars, effectVars, file, store, keyDates>>

\* newDates.length is 0: nothing to insert; return ok
PatchInsertNone(p) ==
    /\ ppc[p] = "insert"
    /\ LET newDates == buildKeyDates(Val(updated[p]), today)
       IN  /\ Len(newDates) = 0
           /\ Answer(p, Response(200, TRUE, 0))
    /\ UNCHANGED <<siteVars, digestVars, effectVars, file, store, keyDates>>

\* ------------------------------------------------------------------------
\* POST /api/agreements/upload
\* ------------------------------------------------------------------------

\* addMonths of date-fns: the day of month is clamped to the last day of the
\* target month
fnsAddMonths(dt, months) ==
    LET first == MakeDay(getFullYear(dt), getMonth(dt) + months, 1)
        len   == MakeDay(getFullYear(dt), getMonth(dt) + months + 1, 1) - first
        day   == IF getDate(dt) > len THEN len ELSE getDate(dt)
    IN  (first + day - 1) * TicksPerDay + TimeOfDay(dt)

\* subDays of date-fns
subDays(dt, days) == dt - days * TicksPerDay

\* the offsets of UTC midnight on the clock of the server: the server runs
\* on UTC, or west of it
ZoneOffsets == {0, -1}

\* new Date("yyyy-mm-dd"): midnight UTC of that day
NewDateUTC(iso, tz) == parseISO(iso) + tz

\* the ... ?? 12 of the upload
UploadDefaultFreq == 12

\* the JSON the extraction model answers with
Extractions ==
    [effectiveDate : {Null, Some(<<2024, 2, 1>>)},
     termLengthMonths : {0, 1},
     endDate : {Null, Some(<<2025, 1, 15>>)},
     autoRenews : {TRUE, FALSE},
     noticeDays : {0, 30},
     renewalFrequencyMonths : {Absent, Given(Some(6))},
     renewal_frequency_months : {Absent, Given(Null), Given(Some(0)), Given(Some(6))}]

\* ExtractZ.parse(raw) does not throw: renewal_frequency_months is
\* z.number().int().positive().nullable().optional()
ExtractZAccepts(raw) ==
    IF raw.renewal_frequency_months = Absent THEN TRUE
    ELSE IF IsNull(raw.renewal_frequency_months[1]) THEN TRUE
    ELSE Val(raw.renewal_frequency_months[1]) > 0

\* the value of ExtractZ.parse(raw): z.object drops the keys it does not name
ExtractZParse(raw) == [raw EXCEPT !.renewalFrequencyMonths = Absent]

\* modelFreq and finalRenewalFreq
FinalRenewalFreq(extracted) ==
    LET modelFreq == FieldOr(extracted.renewalFrequencyMonths,
                             FieldOr(extracted.renewal_frequency_months, Null))
    IN  IF extracted.autoRenews
        THEN (IF ~IsNull(modelFreq) /\ Val(modelFreq) > 0
              THEN modelFreq ELSE Some(UploadDefaultFreq))
        ELSE Null

\* endISO: the end date, or effective + termMonths - 1 day
EndISO(extracted, tz) ==
    IF ~IsNull(extracted.endDate) THEN extracted.endDate
    ELSE IF ~IsNull(extracted.effectiveDate) /\ extracted.termLengthMonths > 0
    THEN Some(toISO(subDays(fnsAddMonths(NewDateUTC(Val(extracted.effectiveDate), tz),
                                         extracted.termLengthMonths), 1)))
    ELSE Null

\* the row .insert({...}) stores
UploadRow(extracted, user, tz) ==
    [id |-> 1, user_id |-> user, end_on |-> EndISO(extracted, tz),
     auto_renews |-> Some(extracted.autoRenews),
     notice_days |-> Some(extracted.noticeDays),
     renewal_frequency_months |-> FinalRenewalFreq(extracted)]

\* the array kd the handler fills after the insert
UploadKd(extracted, tz) ==
    LET endISO == EndISO(extracted, tz)
        row(kind, iso) == [agreement_id |-> 1, event_kind |-> kind, occurs_on |-> iso]
    IN  IF IsNull(endISO) THEN <<>>
        ELSE <<row("TERM_END", Val(endISO))>> \o
             (IF ~extracted.autoRenews THEN <<>>
              ELSE <<row("RENEWAL", Val(endISO))>> \o
                   (IF extracted.noticeDays > 0
                    THEN <<row("NOTICE_DEADLINE",
                               toISO(subDays(NewDateUTC(Val(endISO), tz),
                                             extracted.noticeDays)))>>
                    ELSE <<>>))

\* NextResponse.json(...) of the upload
UploadResponse(st, err) ==
    [op |-> "POST", status |-> st, ok |-> FALSE, key_dates_inserted |-> 0,
     error |-> err]

\* if (!userId) return 401
UploadUnauthorized(p) ==
    /\ MayStart(p)
    /\ MayFail
    /\ Answer(p, UploadResponse(401, "Unauthorized"))
    /\ UNCHANGED <<siteVars, digestVars, effectVars, store, keyDates, file>>

\* if (upErr) return 500: the document was not stored
UploadStoreFail(p) ==
    /\ MayStart(p)
    /\ MayFail
    /\ IsNull(store)
    /\ Answer(p, UploadResponse(500, "upload"))
    /\ UNCHANGED <<siteVars, digestVars, effectVars, store, keyDates, file>>

\* the document is stored; the extraction call fails, and the catch
\* answers 500
UploadExtractFail(p) ==
    /\ MayStart(p)
    /\ MayFail
    /\ IsNull(store)
    /\ file' = TRUE
    /\ Answer(p, UploadResponse(500, "OpenRouter API error"))
    /\ UNCHANGED <<siteVars, digestVars, effectVars, store, keyDates>>

\* the document is stored; ExtractZ.parse throws, and the catch answers 500
UploadRejected(p) ==
    /\ MayStart(p)
    /\ MayFail
    /\ IsNull(store)
    /\ \E raw \in Extractions : ~ExtractZAccepts(raw)
    /\ file' = TRUE
    /\ Answer(p, UploadResponse(500, "ZodError"))
    /\ UNCHANGED <<siteVars, digestVars, effectVars, store, keyDates>>

\* the document is stored; AgreementZ.safeParse fails: 400
UploadInvalid(p) ==
    /\ MayStart(p)
    /\ MayFail
    /\ IsNull(store)
    /\ file' = TRUE
    /\ Answer(p, UploadResponse(400, "Validation failed"))
    /\ UNCHANGED <<siteVars, digestVars, effectVars, store, keyDates>>

\* the document is stored; the insert of the row fails: 500
UploadInsertFail(p) ==
    /\ MayStart(p)
    /\ MayFail
    /\ IsNull(store)
    /\ file' = TRUE
    /\ Answer(p, UploadResponse(500, "insert"))
    /\ UNCHANGED <<siteVars, digestVars, effectVars, store, keyDates>>

\* the document is stored, the row is inserted, kd is filled and dropped,
\* and the answer is { agreement: inserted }
Upload(p) ==
    /\ MayStart(p)
    /\ MayFail
    /\ IsNull(store)
    /\ \E raw \in Extractions, u \in Users \ {Null}, tz \in ZoneOffsets :
          /\ ExtractZAccepts(raw)
          /\ LET extracted == ExtractZParse(raw)
                 kd == UploadKd(extracted, tz)
             IN  store' = Some(UploadRow(extracted, u, tz))
    /\ file' = TRUE
    /\ Answer(p, UploadResponse(200, ""))
    /\ UNCHANGED <<siteVars, digestVars, effectVars, keyDates>>

\* ------------------------------------------------------------------------
\* DELETE /api/agreements/:id
\* ------------------------------------------------------------------------

\* NextResponse.json(...) of DELETE
DeleteResponse(st, okay, err) ==
    [op |-> "DELETE", status |-> st, ok |-> okay, key_dates_inserted |-> 0,
     error |-> err]

\* the positions of the DELETE handler
DeletePositions == {"dfetch", "dfile", "dkd", "drow"}

\* the request arrives
DeleteReceive(p) ==
    /\ MayStart(p)
    /\ MayFail
    /\ \E u \in Users : req' = [req EXCEPT ![p] = [body |-> <<>>, user |-> u]]
    /\ resp' = [resp EXCEPT ![p] = NoResponse]
    /\ ppc' = [ppc EXCEPT ![p] = "dfetch"]
    /\ UNCHANGED <<siteVars, digestVars, effectVars, file, store, keyDates, existing, updated, served>>

\* if (!userId) return 401
DeleteUnauthorized(p) ==
    /\ ppc[p] = "dfetch"
    /\ IsNull(req[p].user)
    /\ Answer(p, DeleteResponse(401, FALSE, "Unauthorized"))
    /\ UNCHANGED <<siteVars, digestVars, effectVars, file, store, keyDates>>

\* .eq("id", id).eq("user_id", userId).single() finds the row
DeleteFound(p) ==
    /\ ~IsNull(req[p].user)
    /\ ~IsNull(store)
    /\ Val(store).user_id = req[p].user

\* the select fails, or .single() finds no row of this user: 500
DeleteFetchFail(p) ==
    /\ ppc[p] = "dfetch"
    /\ ~IsNull(req[p].user)
    /\ Answer(p, DeleteResponse(500, FALSE, "fetchErr"))
    /\ UNCHANGED <<siteVars, digestVars, effectVars, file, store, keyDates>>

\* the row of the agreement is read
DeleteFetch(p) ==
    /\ ppc[p] = "dfetch"
    /\ DeleteFound(p)
    /\ existing' = [existing EXCEPT ![p] = store]
    /\ ppc' = [ppc EXCEPT ![p] = "dfile"]
    /\ UNCHANGED <<siteVars, digestVars, effectVars, file, store, keyDates, req, updated, resp, served>>

\* storage.remove([storageKey])
DeleteFile(p) ==
    /\ ppc[p] = "dfile"
    /\ file' = FALSE
    /\ ppc' = [ppc EXCEPT ![p] = "dkd"]
    /\ UNCHANGED <<siteVars, digestVars, effectVars, store, keyDates, req, existing, updated, resp, served>>

\* if (removeErr) console.error(...): the handler goes on
DeleteFileFail(p) ==
    /\ ppc[p] = "dfile"
    /\ ppc' = [ppc EXCEPT ![p] = "dkd"]
    /\ UNCHANGED <<siteVars, digestVars, effectVars, file, store, keyDates, req, existing, updated, resp, served>>

\* delete the key_dates rows of the agreement
DeleteKeyDates(p) ==
    /\ ppc[p] = "dkd"
    /\ keyDates' = <<>>
    /\ ppc' = [ppc EXCEPT ![p] = "drow"]
    /\ UNCHANGED <<siteVars, digestVars, effectVars, file, store, req, existing, updated, resp, served>>

\* if (kdErr) console.error(...): the handler goes on
DeleteKeyDatesFail(p) ==
    /\ ppc[p] = "dkd"
    /\ ppc' = [ppc EXCEPT ![p] = "drow"]
    /\ UNCHANGED <<siteVars, digestVars, effectVars, file, store, keyDates, req, existing, updated, resp, served>>

\* delete the row of the agreement; return { ok: true }
DeleteRow(p) ==
    /\ ppc[p] = "drow"
    /\ store' = Null
    /\ Answer(p, DeleteResponse(200, TRUE, ""))
    /\ UNCHANGED <<siteVars, digestVars, effectVars, file, keyDates>>

\* if (delErr) return 500
DeleteRowFail(p) ==
    /\ ppc[p] = "drow"
    /\ Answer(p, DeleteResponse(500, FALSE, "delErr"))
    /\ UNCHANGED <<siteVars, digestVars, effectVars, file, store, keyDates>>

NextPatch ==
    \E p \in Procs :
        \/ PatchReceive(p) \/ PatchNotFound(p) \/ PatchForbidden(p) \/ PatchLoad(p)
        \/ PatchUpdate(p) \/ PatchUpdateFail(p)
        \/ PatchDelete(p) \/ PatchDeleteFail(p)
        \/ PatchInsert(p) \/ PatchInsertFail(p) \/ PatchInsertNone(p)
        \/ UploadUnauthorized(p) \/ UploadStoreFail(p) \/ UploadExtractFail(p)
        \/ UploadRejected(p)
        \/ UploadInvalid(p) \/ UploadInsertFail(p) \/ Upload(p)
        \/ DeleteReceive(p) \/ DeleteUnauthorized(p) \/ DeleteFetchFail(p)
        \/ DeleteFetch(p) \/ DeleteFile(p) \/ DeleteFileFail(p)
        \/ DeleteKeyDates(p) \/ DeleteKeyDatesFail(p)
        \/ DeleteRow(p) \/ DeleteRowFail(p)

SpecPatch == InitPatch /\ [][NextPatch]_vars

\* ------------------------------------------------------------------------
\* Two PATCH requests for the same agreement at the same time
\* ------------------------------------------------------------------------

\* the agreement is stored with the key dates built from it; no statement
\* fails
InitPatch2 ==
    /\ site = "patch2"
    /\ agreements = <<>>
    /\ today = At(<<2025, 1, 15>>, 0)
    /\ windowStart = today
    /\ windowEnd = addMonths(today, MonthsAhead)
    /\ cap = LongGuard
    /\ InitLocals
    /\ \E a \in PatchRows :
          /\ store = Some(a)
          /\ keyDates = buildKeyDates(a, today)
    /\ file = TRUE
    /\ PatchIdle
    /\ NoDigest
    /\ NoEffect

\* the steps of the two handler runs, in any order
NextPatch2 ==
    \E p \in Procs :
        \/ PatchReceive(p) \/ PatchLoad(p)
        \/ PatchUpdate(p) \/ PatchDelete(p)
        \/ PatchInsert(p) \/ PatchInsertNone(p)

SpecPatch2 == InitPatch2 /\ [][NextPatch2]_vars

\* ------------------------------------------------------------------------
\* The daily digest cron and its log email_reminders_sent
\* ------------------------------------------------------------------------

\* the rows of the agreements table the digest may find
DigestRows(i) ==
    {[Agreement(i, Some(<<2025, 1, 15>>), Some(TRUE), Some(30), Some(12))
        EXCEPT !.user_id = u] : u \in {Null, Some(1), Some(2)}}

\* the agreements table: up to MaxAgreements rows with the ids 1, 2, ..
DigestTables ==
    UNION {{t \in [1..n -> UNION {DigestRows(i) : i \in 1..n}] :
                \A i \in 1..n : t[i].id = i} : n \in 0..MaxAgreements}

\* new Date() or new Date(asOf) of a run
RunDates ==
    {At(<<2025, 1, 15>>, k) : k \in 0..(TicksPerDay - 1)} \cup {At(<<2025, 1, 16>>, 0)}

InitDigest ==
    /\ site = "digest"
    /\ agreements \in DigestTables
    /\ today \in RunDates
    /\ windowStart = today
    /\ windowEnd = today
    /\ cap = LongGuard
    /\ InitLocals
    /\ NoTables
    /\ NoDigest
    /\ NoEffect

\* what the digest leaves alone
digestFrame ==
    <<site, agreements, windowStart, windowEnd, cap, idx, pc, renewal, guard,
      evts, all, patchVars, effectVars>>

\* the keys of byUser, in the order Object.entries yields them: the users in
\* the order of their first row
RECURSIVE ByUser(_, _)
ByUser(rows, seen) ==
    IF rows = <<>> THEN <<>>
    ELSE IF IsNull(Head(rows).user_id) \/ Head(rows).user_id \in seen
    THEN ByUser(Tail(rows), seen)
    ELSE <<Head(rows).user_id>> \o ByUser(Tail(rows), seen \cup {Head(rows).user_id})

\* byUser[user_id]
RowsOfUser(u) == SelectSeq(agreements, LAMBDA a : a.user_id = u)

\* the payload of the upsert: one row per agreement of the user
DigestPayload(u, now) ==
    [i \in 1..Len(RowsOfUser(u)) |->
        [user_id |-> u, agreement_id |-> RowsOfUser(u)[i].id,
         event_kind |-> "DAILY_DIGEST", occurs_on |-> toISO(now),
         offset_days |-> 0]]

\* onConflict: "user_id,agreement_id,event_kind,occurs_on"
ConflictKey(r) == <<r.user_id, r.agreement_id, r.event_kind, r.occurs_on>>

\* upsert that inserts every row of the payload
Upsert_InsertAll(table, payload) == table \o payload

\* upsert(payload, { onConflict, ignoreDuplicates: true }): a row whose key
\* is in the table already is left out
RECURSIVE Upsert(_, _)
Upsert(table, payload) ==
    IF payload = <<>> THEN table
    ELSE Upsert(IF \E i \in 1..Len(table) :
                       ConflictKey(table[i]) = ConflictKey(Head(payload))
                THEN table
                ELSE Append(table, Head(payload)),
                Tail(payload))

\* a run may start
DigestIdle == dpc = "idle" /\ runs < MaxRuns

\* the secret header is wrong: 401
DigestUnauthorized ==
    /\ DigestIdle
    /\ dresp' = 401
    /\ runs' = runs + 1
    /\ UNCHANGED <<digestFrame, today, reminders, dpc, dryRun, dqueue, results, dlog>>

\* if (aErr) return 500
DigestFetchFail ==
    /\ DigestIdle
    /\ dresp' = 500
    /\ runs' = runs + 1
    /\ UNCHANGED <<digestFrame, today, reminders, dpc, dryRun, dqueue, results, dlog>>

\* the run reads its parameters and the agreements and groups them by user
DigestBegin ==
    /\ DigestIdle
    /\ today' \in RunDates
    /\ dryRun' \in BOOLEAN
    /\ dqueue' = ByUser(agreements, {})
    /\ results' = <<>>
    /\ dlog' = <<>>
    /\ dresp' = 0
    /\ dpc' = "users"
    /\ UNCHANGED <<digestFrame, reminders, runs>>

\* if (uerr || !ures?.user?.email) { results.push(...); continue; }
DigestSkipUser ==
    /\ dpc = "users"
    /\ dqueue # <<>>
    /\ results' = Append(results, [user_id |-> Head(dqueue), to |-> FALSE, sent |-> 0])
    /\ dqueue' = Tail(dqueue)
    /\ UNCHANGED <<digestFrame, today, reminders, dpc, dryRun, dlog, dresp, runs>>

\* the mail is sent or skipped, the rows are logged, and the number of rows
\* the upsert returned is written to the console
DigestLog ==
    /\ dpc = "users"
    /\ dqueue # <<>>
    /\ reminders' = Upsert(reminders, DigestPayload(Head(dqueue), today))
    /\ dlog' = Append(dlog, Len(reminders') - Len(reminders))
    /\ results' = Append(results, [user_id |-> Head(dqueue), to |-> TRUE,
                                   sent |-> IF dryRun THEN 0 ELSE 1])
    /\ dqueue' = Tail(dqueue)
    /\ UNCHANGED <<digestFrame, today, dpc, dryRun, dresp, runs>>

\* if (insErr) console.error(...): the run goes on
DigestLogFail ==
    /\ dpc = "users"
    /\ dqueue # <<>>
    /\ dlog' = Append(dlog, -1)
    /\ results' = Append(results, [user_id |-> Head(dqueue), to |-> TRUE,
                                   sent |-> IF dryRun THEN 0 ELSE 1])
    /\ dqueue' = Tail(dqueue)
    /\ UNCHANGED <<digestFrame, today, reminders, dpc, dryRun, dresp, runs>>

\* return { ok: true, ... }, also when no agreement was found
DigestFinish ==
    /\ dpc = "users"
    /\ dqueue = <<>>
    /\ dresp' = 200
    /\ dpc' = "idle"
    /\ runs' = runs + 1
    /\ UNCHANGED <<digestFrame, today, reminders, dryRun, dqueue, results, dlog>>

NextDigest ==
    \/ DigestUnauthorized \/ DigestFetchFail \/ DigestBegin
    \/ DigestSkipUser \/ DigestLog \/ DigestLogFail \/ DigestFinish

SpecDigest == InitDigest /\ [][NextDigest]_vars

\* ------------------------------------------------------------------------
\* The effect of the calendar view that loads the agreements
\* ------------------------------------------------------------------------

\* the months the view may display, counted from the month it was opened on
Months == -1..1

\* the versions of the agreements table a fetch may return
Fetched == {1, 2}

\* one run of the effect: the window its closure holds, its flag cancelled,
\* whether load() is still awaiting, and whether it wrote the state
NewLoad(m) == [window |-> m, cancelled |-> FALSE, awaiting |-> TRUE, wrote |-> FALSE]

\* the events load() computes from the rows it fetched, for its window
EventsOfLoad(l, rows) == [window |-> l.window, rows |-> rows]

\* the view is mounted; the effect of the first render is still to run
InitEffect ==
    /\ site = "effect"
    /\ agreements = <<>>
    /\ today = At(<<2025, 1, 15>>, 0)
    /\ windowStart = today
    /\ windowEnd = today
    /\ cap = DefaultCap
    /\ InitLocals
    /\ NoTables
    /\ NoDigest
    /\ displayed = 0
    /\ pending = TRUE
    /\ loads = <<>>
    /\ events = Null
    /\ loading = FALSE
    /\ error = Null
    /\ changes = 0

\* what the effect leaves alone
effectFrame ==
    <<site, agreements, today, windowStart, windowEnd, cap, idx, pc, renewal,
      guard, evts, all, patchVars, digestVars>>

\* goPrev, goNext: the displayed month changes and the view renders again
ChangeMonth ==
    /\ ~pending
    /\ changes < MaxChanges
    /\ \E m \in Months : (m = displayed - 1 \/ m = displayed + 1) /\ displayed' = m
    /\ pending' = TRUE
    /\ changes' = changes + 1
    /\ UNCHANGED <<effectFrame, loads, events, loading, error>>

\* the cleanup of the last run sets its cancelled, and the effect runs for
\* the new window: load() sets loading and clears error before its first await
RunEffect ==
    /\ pending
    /\ loads' = Append([i \in 1..Len(loads) |->
                           IF i = Len(loads) THEN [loads[i] EXCEPT !.cancelled = TRUE]
                           ELSE loads[i]],
                       NewLoad(displayed))
    /\ loading' = TRUE
    /\ error' = Null
    /\ pending' = FALSE
    /\ UNCHANGED <<effectFrame, displayed, events, changes>>

\* LoadSucceed that writes events and loading without reading cancelled
LoadSucceed_Unguarded(i) ==
    /\ i \in 1..Len(loads)
    /\ loads[i].awaiting
    /\ \E rows \in Fetched :
          /\ events' = Some(EventsOfLoad(loads[i], rows))
          /\ loading' = FALSE
          /\ loads' = [loads EXCEPT ![i].awaiting = FALSE,
                                    ![i].wrote = ~loads[i].cancelled]
    /\ UNCHANGED <<effectFrame, displayed, pending, error, changes>>

\* the awaits of load() come back with the agreements:
\* if (!cancelled) setEvents(all); finally if (!cancelled) setLoading(false)
LoadSucceed(i) ==
    /\ i \in 1..Len(loads)
    /\ loads[i].awaiting
    /\ \E rows \in Fetched :
          /\ events' = IF loads[i].cancelled THEN events
                       ELSE Some(EventsOfLoad(loads[i], rows))
          /\ loading' = IF loads[i].cancelled THEN loading ELSE FALSE
          /\ loads' = [loads EXCEPT ![i].awaiting = FALSE,
                                    ![i].wrote = ~loads[i].cancelled]
    /\ UNCHANGED <<effectFrame, displayed, pending, error, changes>>

\* an await of load() throws:
\* if (!cancelled) setError(...); finally if (!cancelled) setLoading(false)
LoadFail(i) ==
    /\ i \in 1..Len(loads)
    /\ loads[i].awaiting
    /\ error' = IF loads[i].cancelled THEN error ELSE Some("Failed to load")
    /\ loading' = IF loads[i].cancelled THEN loading ELSE FALSE
    /\ loads' = [loads EXCEPT ![i].awaiting = FALSE,
                              ![i].wrote = ~loads[i].cancelled]
    /\ UNCHANGED <<effectFrame, displayed, pending, events, changes>>

NextEffect ==
    \/ ChangeMonth
    \/ RunEffect
    \/ \E i \in 1..(MaxChanges + 1) : LoadSucceed(i) \/ LoadFail(i)

SpecEffect == InitEffect /\ [][NextEffect]_vars

\* ------------------------------------------------------------------------
\* Properties of generateEventsFromAgreement
\* ------------------------------------------------------------------------

\* generateEventsFromAgreement has returned evts for the row Cur
GenReturned == site = "calendar" /\ pc = "ret"

\* the events of evts of one type
OfType(es, t) == {i \in 1..Len(es) : es[i].type = t}

\* C1: every event returned by generateEventsFromAgreement, of any kind, is
\* dated inside [windowStart, windowEnd], whether or not the guard reached
\* the cap.
WindowClipping ==
    GenReturned =>
        \A i \in 1..Len(evts) :
            /\ windowStart <= parseISO(evts[i].date)
            /\ parseISO(evts[i].date) <= windowEnd

\* C1 witness: a call returned a term end, a renewal and a notice deadline
WindowClippingWitness ==
    /\ GenReturned
    /\ OfType(evts, "termination") # {}
    /\ OfType(evts, "renewal") # {}
    /\ OfType(evts, "notice") # {}

\* C2: with noticeDays = n > 0, each returned renewal at R has exactly one
\* notice deadline at R - n when R - n is in the window and none when it is
\* not, and every returned notice deadline is R - n of a returned renewal.
NoticePairing ==
    (GenReturned /\ ~IsNull(Cur.end_on) /\ NoticeDays(Cur) > 0) =>
        /\ \A i \in OfType(evts, "renewal") :
              LET nd == addDays(parseISO(evts[i].date), -NoticeDays(Cur))
              IN  Cardinality({j \in OfType(evts, "notice") : evts[j].date = toISO(nd)})
                    = IF windowStart <= nd /\ nd <= windowEnd THEN 1 ELSE 0
        /\ \A j \in OfType(evts, "notice") :
              \E i \in OfType(evts, "renewal") :
                  evts[j].date = toISO(addDays(parseISO(evts[i].date), -NoticeDays(Cur)))

\* C2 witness: one returned renewal has its notice and another has none
NoticePairingWitness ==
    /\ GenReturned
    /\ NoticeDays(Cur) > 0
    /\ Cardinality(OfType(evts, "notice")) >= 1
    /\ Cardinality(OfType(evts, "renewal")) > Cardinality(OfType(evts, "notice"))

\* C3: when auto_renews is false or null the call returns at most one event,
\* the term end at end_on, whatever notice_days and the cadence are.
NoRenewalBound ==
    (GenReturned /\ Cur.auto_renews \in {Null, Some(FALSE)}) =>
        /\ Len(evts) <= 1
        /\ \A i \in 1..Len(evts) :
              /\ evts[i].type = "termination"
              /\ evts[i].date = Val(Cur.end_on)

\* C3 witness: a non-renewing row with a notice period and a cadence returned
\* its term end
NoRenewalBoundWitness ==
    /\ GenReturned
    /\ Cur.auto_renews \in {Null, Some(FALSE)}
    /\ Len(evts) = 1
    /\ NoticeDays(Cur) > 0
    /\ ~IsNull(Cur.renewal_frequency_months)

\* the call of the scenario of C4
IsScenario ==
    /\ GenReturned
    /\ Cur.end_on = Some(<<2025, 1, 15>>)
    /\ Cur.auto_renews = Some(TRUE)
    /\ Cur.renewal_frequency_months = Some(12)
    /\ Cur.notice_days = Some(30)
    /\ windowStart = At(<<2025, 1, 1>>, 0)
    /\ windowEnd = At(<<2026, 2, 1>>, 0)
    /\ cap = DefaultCap

\* C4: end_on 2025-01-15, auto-renewing every 12 months with 30 days of
\* notice, window 2025-01-01..2026-02-01: exactly the term end and renewal
\* of 2025-01-15, the renewal of 2026-01-15 and the notice of 2025-12-16.
Scenario ==
    IsScenario =>
        /\ Len(evts) = 4
        /\ {<<evts[i].type, evts[i].date>> : i \in 1..Len(evts)} =
              {<<"termination", <<2025, 1, 15>>>>, <<"renewal", <<2025, 1, 15>>>>,
               <<"renewal", <<2026, 1, 15>>>>, <<"notice", <<2025, 12, 16>>>>}

\* C4 witness: the scenario's call has returned
ScenarioWitness == IsScenario /\ Len(evts) > 0

\* ------------------------------------------------------------------------
\* Properties of the merged calendar events
\* ------------------------------------------------------------------------

\* Calendar.load has sorted the merged events
Loaded == site = "calendar" /\ pc = "done"

KindRank(t) == IF t = "termination" THEN 0 ELSE IF t = "renewal" THEN 1 ELSE 2

\* position of the agreement i in the fetched rows
FetchPos(i) == CHOOSE k \in 1..Len(agreements) : agreements[k].id = i

\* C5 as stated: the loaded events ascend by date, same-date events by kind
\* (term end, renewal, notice deadline) and then by agreement id, for every
\* fetch order.
OutputOrdering ==
    Loaded =>
        \A i \in 1..(Len(all) - 1) :
            \/ IsoLess(all[i].date, all[i + 1].date)
            \/ /\ all[i].date = all[i + 1].date
               /\ \/ KindRank(all[i].type) < KindRank(all[i + 1].type)
                  \/ /\ all[i].type = all[i + 1].type
                     /\ all[i].agreementId <= all[i + 1].agreementId

\* C5 amended: the loaded events ascend by date; same-date events keep the
\* order in which their agreements were fetched and, within one agreement,
\* come term end first, then renewal, then notice deadline.
OutputOrderingByFetch ==
    Loaded =>
        \A i, j \in 1..Len(all) :
            i < j =>
                /\ ~IsoLess(all[j].date, all[i].date)
                /\ all[i].date = all[j].date =>
                      \/ FetchPos(all[i].agreementId) < FetchPos(all[j].agreementId)
                      \/ /\ all[i].agreementId = all[j].agreementId
                         /\ KindRank(all[i].type) < KindRank(all[j].type)

\* C5 witness: two agreements have events on one date, and one agreement has
\* a renewal and a notice deadline on one date
OutputOrderingWitness ==
    /\ Loaded
    /\ \E i, j \in 1..Len(all) :
          /\ all[i].date = all[j].date
          /\ all[i].agreementId # all[j].agreementId
    /\ \E i, j \in 1..Len(all) :
          /\ all[i].date = all[j].date
          /\ all[i].agreementId = all[j].agreementId
          /\ all[i].type = "renewal" /\ all[j].type = "notice"

\* the id template shared by the agenda and the ICS export
SharedId(e) ==
    <<e.agreementId,
      IF e.type = "termination" THEN "term" ELSE e.type,
      e.date>>

\* C6: the id of an event is a function of (agreementId, kind, occursOn)
\* only, the same at every call site: the calendar gives each event the id
\* the agenda and the ICS export give that agreement, kind and date.
StableIdentity ==
    GenReturned =>
        \A i \in 1..Len(evts) :
            /\ evts[i].id = SharedId(evts[i])
            /\ evts[i].id = IcsEvent(Cur, SharedId(evts[i])[2], parseISO(evts[i].date)).uid
            /\ evts[i].id =
                 AgendaItem(Cur, SharedId(evts[i])[2], parseISO(evts[i].date), 0).id

\* ------------------------------------------------------------------------
\* Properties of the renewal sequence
\* ------------------------------------------------------------------------

\* the dates end_on, addMonths(end_on, c), addMonths(addMonths(end_on, c), c),
\* ... up to windowEnd that are not before windowStart, c being the row's
\* cadence when positive and 12 otherwise
RECURSIVE CadenceDates(_, _, _, _)
CadenceDates(r, c, ws, we) ==
    IF r > we THEN <<>>
    ELSE (IF r >= ws THEN <<toISO(r)>> ELSE <<>>)
         \o CadenceDates(addMonths(r, c), c, ws, we)

\* number of cadence steps from r needed to pass windowEnd
RECURSIVE StepsToPass(_, _, _)
StepsToPass(r, c, we) ==
    IF r > we THEN 0 ELSE 1 + StepsToPass(addMonths(r, c), c, we)

Cadence(a) ==
    IF IsNull(a.renewal_frequency_months) \/ Val(a.renewal_frequency_months) <= 0
    THEN 12
    ELSE Val(a.renewal_frequency_months)

\* all the renewal dates of the row Cur in the window
FullRenewals ==
    CadenceDates(parseISO(Val(Cur.end_on)), Cadence(Cur), windowStart, windowEnd)

\* the dates of the returned renewals, in the order returned
RECURSIVE RenewalDates(_)
RenewalDates(es) ==
    IF es = <<>> THEN <<>>
    ELSE (IF Head(es).type = "renewal" THEN <<Head(es).date>> ELSE <<>>)
         \o RenewalDates(Tail(es))

AutoCall ==
    GenReturned /\ ~IsNull(Cur.end_on) /\ Cur.auto_renews = Some(TRUE)

\* C7: when fewer cadence steps than the cap lead from end_on past
\* windowEnd, the returned renewals are exactly the dates of the cadence
\* sequence inside the window, ascending, none skipped.
HorizonCompleteness ==
    (AutoCall /\ StepsToPass(parseISO(Val(Cur.end_on)), Cadence(Cur), windowEnd) < cap)
        => RenewalDates(evts) = FullRenewals

\* C7 witness: a complete call that fast-forwarded and returned renewals
HorizonCompletenessWitness ==
    /\ AutoCall
    /\ StepsToPass(parseISO(Val(Cur.end_on)), Cadence(Cur), windowEnd) < cap
    /\ parseISO(Val(Cur.end_on)) < windowStart
    /\ Len(RenewalDates(evts)) >= 2

\* C8: when the guard reaches the cap the call still returns, and the
\* returned renewals are an initial segment of the in-window renewal dates.
CapTruncation ==
    (AutoCall /\ guard >= cap) =>
        /\ Len(RenewalDates(evts)) <= Len(FullRenewals)
        /\ RenewalDates(evts) = SubSeq(FullRenewals, 1, Len(RenewalDates(evts)))

\* C8 witness: the cap cut a call short after it returned some renewals
CapTruncationWitness ==
    /\ AutoCall
    /\ guard >= cap
    /\ Len(RenewalDates(evts)) >= 1
    /\ Len(RenewalDates(evts)) < Len(FullRenewals)

\* ------------------------------------------------------------------------
\* Properties of the loops of every call site
\* ------------------------------------------------------------------------

\* a step that stays inside a loop is one pass of its body
InLoop == pc \in {"ff", "enum"}

\* the largest number of passes the claim allows the loops of a call site
PassLimit ==
    IF site = "calendar" THEN cap
    ELSE IF site = "ics" THEN 24
    ELSE 120

\* position in the control flow of one row, counted down to its end
PcRank ==
    IF pc = "start" THEN 3
    ELSE IF pc = "ff" THEN 2
    ELSE IF pc = "enum" THEN 1
    ELSE 0

\* what is left to do: the rows not yet finished, then the position in the
\* row, then the passes the guard still allows
Remaining ==
    IF pc = "done" THEN 0
    ELSE 1 + (Len(agreements) + 1 - idx) * 4 * (PassLimit + 1)
           + PcRank * (PassLimit + 1)
           + (IF InLoop THEN PassLimit - guard ELSE 0)

\* C9: every call terminates: every step shortens what remains, which is
\* never negative and is 0 only once the call site is done; each pass of a loop counts one on the
\* guard and the guard never exceeds the cap (the cap argument in the
\* calendar, 120 in buildKeyDates, the agenda and nextEvents, 24 in the ICS
\* export), so that generateEventsFromAgreement returns at most cap renewals.
BoundedWork ==
    /\ [](/\ guard <= PassLimit
          /\ GenReturned => Cardinality(OfType(evts, "renewal")) <= cap
          /\ Remaining >= 0)
    /\ [][/\ (InLoop /\ pc' = pc) => guard' = guard + 1
          /\ Remaining' < Remaining]_vars

\* C9 witness: a call of generateEventsFromAgreement spent the whole cap on
\* passes that each returned a renewal
BoundedWorkWitness ==
    /\ GenReturned
    /\ guard = cap
    /\ Cardinality(OfType(evts, "renewal")) = cap

\* the stored cadence is 0, negative or null
NonPositiveCadence(a) ==
    IF IsNull(a.renewal_frequency_months) THEN TRUE
    ELSE Val(a.renewal_frequency_months) <= 0

\* C10: at every call site, a row whose cadence is 0, negative or null is
\* stepped by 12 months: each pass of a loop moves the cursor to
\* addMonths(cursor, 12), which is later than the cursor.
CadenceNormalization ==
    [][(InLoop /\ pc' = pc /\ NonPositiveCadence(Cur)) =>
          /\ renewal' = setMonth(renewal, getMonth(renewal) + 12)
          /\ toISO(renewal')[1] = toISO(renewal)[1] + 1
          /\ renewal' > renewal]_vars

\* C10 witness: a loop has passed twice over a row whose cadence is 0
CadenceNormalizationWitness ==
    /\ InLoop
    /\ guard >= 2
    /\ Cur.renewal_frequency_months = Some(0)

\* ------------------------------------------------------------------------
\* Agreements without an end date
\* ------------------------------------------------------------------------

\* the VEVENT blocks of a serialized calendar
VEventCount(ls) ==
    Cardinality({i \in 1..Len(ls) : ls[i].tag = "BEGIN" /\ ls[i].val = "VEVENT"})

\* C11: at every call site a row whose end_on is null returns normally with
\* no events, whatever its auto_renews, notice_days and cadence: the only
\* step from its start is the return with an empty list, nothing of it is
\* kept, and a call over such rows alone ends with an empty result.
MissingEndDate ==
    /\ [](/\ (pc = "ret" /\ Cur.end_on = Null)
                => (evts = <<>> /\ Kept(site, Cur, evts, today) = <<>>)
          /\ (pc = "done" /\ \A i \in 1..Len(agreements) : agreements[i].end_on = Null)
                => IF site = "ics" THEN VEventCount(all) = 0 ELSE all = <<>>)
    /\ [][(pc = "start" /\ idx <= Len(agreements) /\ Cur.end_on = Null)
             => (pc' = "ret" /\ evts' = <<>>)]_vars

MissingEndDateWitness ==
    /\ site = "cron" /\ pc = "done"
    /\ agreements[1].end_on = Null
    /\ agreements[1].auto_renews = Some(TRUE)
    /\ agreements[1].notice_days = Some(30)
    /\ all = <<>>

\* ------------------------------------------------------------------------
\* The first renewal
\* ------------------------------------------------------------------------

\* the dates of the renewals returned at the call site s
ReturnedRenewals(s, es) ==
    IF s = "calendar"
    THEN {es[i].date : i \in OfType(es, "renewal")}
    ELSE {es[i].occurs_on : i \in {j \in 1..Len(es) : es[j].event_kind = "renewal"}}

\* C12: for an auto-renewing agreement, no renewal returned by
\* generateEventsFromAgreement or by buildKeyDates is dated before end_on,
\* and end_on itself is returned as a renewal whenever it lies in the window.
FirstRenewal ==
    (/\ site \in {"calendar", "keydates"} /\ pc = "ret"
     /\ Cur.end_on # Null /\ Cur.auto_renews = Some(TRUE))
    => /\ \A dt \in ReturnedRenewals(site, evts) : ~IsoLess(dt, Val(Cur.end_on))
       /\ (At(Val(Cur.end_on), 0) >= windowStart /\ At(Val(Cur.end_on), 0) <= windowEnd)
             => Val(Cur.end_on) \in ReturnedRenewals(site, evts)

FirstRenewalWitness ==
    /\ site = "keydates" /\ pc = "ret"
    /\ Cur.end_on # Null /\ Cur.auto_renews = Some(TRUE)
    /\ At(Val(Cur.end_on), 0) = windowStart
    /\ Val(Cur.end_on) \in ReturnedRenewals(site, evts)
    /\ Cardinality(ReturnedRenewals(site, evts)) > 1

\* ------------------------------------------------------------------------
\* Purity of generateEventsFromAgreement
\* ------------------------------------------------------------------------

\* two fetched rows that differ in their id only
SameSnapshot(j, k) ==
    /\ j # k
    /\ [agreements[j] EXCEPT !.id = 0] = [agreements[k] EXCEPT !.id = 0]

\* the events of the row at position i in the merged list, in order and
\* without the agreement id
RECURSIVE EventsOf(_, _)
EventsOf(es, i) ==
    IF es = <<>> THEN <<>>
    ELSE (IF Head(es).agreementId = agreements[i].id
          THEN <<[date |-> Head(es).date, type |-> Head(es).type,
                  id |-> Tail(Head(es).id)]>>
          ELSE <<>>)
         \o EventsOf(Tail(es), i)

\* C13: two calls of generateEventsFromAgreement on the same agreement
\* snapshot with the same window and cap return the same events with the
\* same ids in the same order; what a call returns is a function of the
\* agreement, windowStart, windowEnd and cap alone (not of the wall clock,
\* of the rows processed before or of what earlier calls left behind), and
\* no step of a call changes the agreement rows, the window or the cap.
Purity ==
    /\ [](/\ GenReturned
                => evts = generateEventsFromAgreement(Cur, windowStart, windowEnd, cap)
          /\ Loaded
                => \A j, k \in 1..Len(agreements) :
                      SameSnapshot(j, k) => EventsOf(all, j) = EventsOf(all, k))
    /\ [][/\ agreements' = agreements
          /\ windowStart' = windowStart /\ windowEnd' = windowEnd
          /\ cap' = cap]_vars

PurityWitness ==
    /\ Loaded
    /\ Len(agreements) = 2
    /\ SameSnapshot(1, 2)
    /\ agreements[1].auto_renews = Some(TRUE)
    /\ Len(EventsOf(all, 1)) > 2
    /\ today # windowStart

\* ------------------------------------------------------------------------
\* The ICS export against generateEventsFromAgreement
\* ------------------------------------------------------------------------

\* the (kind, date) pairs of the events collected by the ICS export
IcsPairs(es) == {<<es[i].summary, toISO(es[i].dt)>> : i \in 1..Len(es)}

\* the (kind, date) pairs of the events of generateEventsFromAgreement
GenPairs(es) ==
    {<<IF es[i].type = "termination" THEN "term" ELSE es[i].type, es[i].date>> :
        i \in 1..Len(es)}

\* C14: for every agreement, the (kind, date) events the ICS export emits for
\* [today, today + 12 months] are the events generateEventsFromAgreement
\* returns for that agreement and that window.
CallSiteAgreement ==
    (site = "ics" /\ pc = "ret")
    => IcsPairs(evts)
         = GenPairs(generateEventsFromAgreement(Cur, today, Horizon(today), DefaultCap))

\* ------------------------------------------------------------------------
\* The Gregorian calendar, counted day by day
\* ------------------------------------------------------------------------

IsLeap(y) == (y % 4 = 0 /\ y % 100 # 0) \/ y % 400 = 0

DaysIn(y, m) ==
    IF m = 2 THEN (IF IsLeap(y) THEN 29 ELSE 28)
    ELSE IF m \in {4, 6, 9, 11} THEN 30 ELSE 31

\* the calendar day after iso
NextDay(iso) ==
    IF iso[3] < DaysIn(iso[1], iso[2]) THEN <<iso[1], iso[2], iso[3] + 1>>
    ELSE IF iso[2] < 12 THEN <<iso[1], iso[2] + 1, 1>>
    ELSE <<iso[1] + 1, 1, 1>>

\* the number of calendar days from the date from to the later date to
RECURSIVE DaysBetween(_, _)
DaysBetween(from, to) ==
    IF from[1] < to[1]
    THEN (IF IsLeap(from[1]) THEN 366 ELSE 365)
         + DaysBetween(<<from[1] + 1, 1, 1>>, to)
         - DaysBetween(<<from[1], 1, 1>>, from)
    ELSE IF from[2] < to[2]
    THEN DaysIn(from[1], from[2])
         + DaysBetween(<<from[1], from[2] + 1, 1>>, to) - (from[3] - 1)
    ELSE to[3] - from[3]

\* ------------------------------------------------------------------------
\* The dashboard agenda
\* ------------------------------------------------------------------------

AgendaDone == site = "agenda" /\ pc = "done"

\* the sections of the dashboard, in the order they are rendered
Groups(items) ==
    <<GroupToday(items), GroupOut30(items), GroupOut60(items), GroupOut90(items)>>

\* the sections in which the item x is shown
ShownIn(items, x) ==
    {g \in 1..4 : \E i \in 1..Len(Groups(items)[g]) : Groups(items)[g][i] = x}

\* C15: every item of the agenda has daysUntil >= 0, daysUntil is the
\* number of calendar days from today to the item's date, and the grouping
\* shows every item in exactly one of the sections today (0), 1 to 30,
\* 31 to 60, 61 or more: the sections together hold as many items as the
\* agenda.
AgendaBuckets ==
    AgendaDone =>
        /\ \A i \in 1..Len(all) :
              /\ all[i].daysUntil >= 0
              /\ ~IsoLess(all[i].date, toISO(today))
              /\ all[i].daysUntil = DaysBetween(toISO(today), all[i].date)
              /\ Cardinality(ShownIn(all, all[i])) = 1
              /\ ShownIn(all, all[i]) =
                    {IF all[i].daysUntil = 0 THEN 1
                     ELSE IF all[i].daysUntil <= 30 THEN 2
                     ELSE IF all[i].daysUntil <= 60 THEN 3 ELSE 4}
        /\ Len(GroupToday(all)) + Len(GroupOut30(all))
              + Len(GroupOut60(all)) + Len(GroupOut90(all)) = Len(all)

AgendaBucketsWitness ==
    /\ AgendaDone
    /\ Len(all) = 2
    /\ Len(GroupToday(all)) = 1
    /\ Len(GroupOut30(all)) = 1
    /\ TimeOfDay(today) # 0

\* the other two sections are reached as well
AgendaBucketsFarWitness ==
    /\ AgendaDone
    /\ Len(GroupOut60(all)) = 1
    /\ Len(GroupOut90(all)) = 0

\* ------------------------------------------------------------------------
\* The 30/60/90 reminder cron
\* ------------------------------------------------------------------------

\* the reminder distances
ReminderDays == {30, 60, 90}

\* the event e of nextEvents is the one listed by the row r
Lists(r, e) == r.kind = e.kind /\ r.on = toISO(e.date)

\* C16: when the cron run of date today has the events of nextEvents for an
\* agreement, the rows it adds for the agreement's user list exactly the
\* events whose calendar-day distance from today is 30, 60 or 90: every
\* added row lists such an event with that distance as inDays, every such
\* event is listed once, and the result holds no row at another distance.
ReminderSelection ==
    /\ [][(site = "cron" /\ pc = "ret" /\ pc' = "start") =>
            LET new == SubSeq(all', Len(all) + 1, Len(all'))
                due == {j \in 1..Len(evts) :
                          DaysBetween(toISO(today), toISO(evts[j].date))
                             \in ReminderDays}
            IN  /\ Len(new) = Cardinality(due)
                /\ \A i \in 1..Len(new) :
                      /\ new[i].user_id = Val(Cur.user_id)
                      /\ new[i].agreement = Cur.id
                      /\ \E j \in due :
                            /\ Lists(new[i], evts[j])
                            /\ new[i].inDays
                                  = DaysBetween(toISO(today), toISO(evts[j].date))
                /\ \A j \in due : \E i \in 1..Len(new) : Lists(new[i], evts[j])]_vars
    /\ [](site = "cron" => \A i \in 1..Len(all) : all[i].inDays \in ReminderDays)

\* a run that lists the term end and the renewal 90 days out and the notice
\* deadline 60 days out
ReminderSelectionWitness ==
    /\ site = "cron" /\ pc = "done"
    /\ {all[i].inDays : i \in 1..Len(all)} = {60, 90}
    /\ Len(all) = 3

\* a run whose notice deadline is today: only the events 30 days out are listed
ReminderSelectionNearWitness ==
    /\ site = "cron" /\ pc = "done"
    /\ agreements[1].auto_renews = Some(TRUE)
    /\ agreements[1].notice_days = Some(30)
    /\ {all[i].inDays : i \in 1..Len(all)} = {30}

\* ------------------------------------------------------------------------
\* The serialized calendar
\* ------------------------------------------------------------------------

\* the date written by the digits yyyymmdd
ParseICSDate(n) == <<n \div 10000, (n \div 100) % 100, n % 100>>

IsLine(l, tag, val) == l.tag = tag /\ l.val = val

\* the lines of a VEVENT block and of the header
BlockLines == 7
HeaderLines == 3

\* the line at position k of the block of the i-th event
BlockLine(ls, i, k) == ls[HeaderLines + BlockLines * (i - 1) + k]

\* C17: the export writes, between the VCALENDAR header and footer, exactly
\* one BEGIN:VEVENT / END:VEVENT block per collected event, in order; in the
\* block DTSTART is the event's calendar date as yyyymmdd (it parses back to
\* the same date) and DTEND is the following calendar day, across month
\* ends, year ends and 29 February.
IcsOneDayEvents ==
    [][(site = "ics" /\ pc = "start" /\ pc' = "done") =>
        /\ Len(all') = HeaderLines + BlockLines * Len(all) + 1
        /\ IsLine(all'[1], "BEGIN", "VCALENDAR")
        /\ IsLine(all'[Len(all')], "END", "VCALENDAR")
        /\ VEventCount(all') = Len(all)
        /\ Cardinality({i \in 1..Len(all') : all'[i].tag = "END"}) = Len(all) + 1
        /\ \A i \in 1..Len(all) :
              /\ IsLine(BlockLine(all', i, 1), "BEGIN", "VEVENT")
              /\ IsLine(BlockLine(all', i, 2), "UID", all[i].uid)
              /\ BlockLine(all', i, 4).tag = "DTSTART"
              /\ ParseICSDate(BlockLine(all', i, 4).val) = toISO(all[i].dt)
              /\ BlockLine(all', i, 5).tag = "DTEND"
              /\ ParseICSDate(BlockLine(all', i, 5).val) = NextDay(toISO(all[i].dt))
              /\ IsLine(BlockLine(all', i, 7), "END", "VEVENT")]_vars

\* the dates written in DTSTART and DTEND of the exported blocks
StartEnd(ls) ==
    {<<ls[i].val, ls[i + 1].val>> :
        i \in {j \in 1..Len(ls) : ls[j].tag = "DTSTART"}}

\* an export with an event on 29 February
IcsOneDayEventsWitness ==
    /\ site = "ics" /\ pc = "done"
    /\ <<20240229, 20240301>> \in StartEnd(all)

\* an export with an event on 31 December and one on 31 January
IcsYearEndWitness ==
    /\ site = "ics" /\ pc = "done"
    /\ <<20241231, 20250101>> \in StartEnd(all)
    /\ <<20250131, 20250201>> \in StartEnd(all)

\* ------------------------------------------------------------------------
\* Month overflow
\* ------------------------------------------------------------------------

\* a pass of a loop: the cursor moves on by addMonths(renewal, freq)
LoopPass == InLoop /\ pc' = pc /\ guard' = guard + 1

\* the month <<y, m>> that lies k months after the month of iso
MonthAfter(iso, k) ==
    LET n == iso[1] * 12 + (iso[2] - 1) + k
    IN  <<n \div 12, (n % 12) + 1>>

\* to is from moved on by k months without clamping: the same day of the
\* target month when the month has that day, and otherwise the days in
\* excess of the target month counted into the month after it
RolledOver(from, k, to) ==
    LET tm == MonthAfter(from, k)
        nm == MonthAfter(from, k + 1)
        len == DaysIn(tm[1], tm[2])
    IN  IF from[3] <= len
        THEN to = <<tm[1], tm[2], from[3]>>
        ELSE to = <<nm[1], nm[2], from[3] - len>>

\* 2024-01-31 moved on by one month
FromJan31 ==
    /\ LoopPass
    /\ toISO(renewal) = <<2024, 1, 31>>
    /\ Cur.renewal_frequency_months = Some(1)

\* C18 as stated: addMonths never clamps to the end of the target month but
\* rolls the excess days into the following month, and
\* addMonths(2024-01-31, 1) is 2024-03-03.
MonthOverflow ==
    [][/\ LoopPass => RolledOver(toISO(renewal), Freq(Cur), toISO(renewal'))
       /\ FromJan31 => toISO(renewal') = <<2024, 3, 3>>]_vars

\* C18, amended: addMonths never clamps to the end of the target month but
\* rolls the excess days into the following month, and
\* addMonths(2024-01-31, 1) is 2024-03-02 (February 2024 has 29 days, so 31
\* February is two days past its end).
MonthOverflowLeap ==
    [][/\ LoopPass => RolledOver(toISO(renewal), Freq(Cur), toISO(renewal'))
       /\ FromJan31 => toISO(renewal') = <<2024, 3, 2>>]_vars

MonthOverflowLeapWitness ==
    /\ pc = "ff" /\ guard = 1
    /\ Cur.end_on = Some(<<2024, 1, 31>>)
    /\ Cur.renewal_frequency_months = Some(1)
    /\ toISO(renewal) = <<2024, 3, 2>>

\* ------------------------------------------------------------------------
\* diffInDays
\* ------------------------------------------------------------------------

\* the number of calendar days from the date b to the date a, negative when
\* a is the earlier one
SignedDays(a, b) ==
    IF IsoLess(a, b) THEN 0 - DaysBetween(a, b) ELSE DaysBetween(b, a)

\* the Dates the agenda and the reminder cron hand to diffInDays: today,
\* the cursor inside a loop, the end date
DiffArgs ==
    IF site \in {"agenda", "cron"}
    THEN {today}
           \cup (IF InLoop THEN {renewal} ELSE {})
           \cup (IF idx <= Len(agreements) /\ Cur.end_on # Null
                 THEN {parseISO(Val(Cur.end_on))} ELSE {})
    ELSE {}

\* the Date at tick k of the calendar day of t
SameDayAt(t, k) == DayOf(t) * TicksPerDay + k

\* C19: diffInDays(a, b) depends on the calendar dates of a and b only: it
\* is 0 when they fall on one calendar day whatever their times of day, it
\* is the number of calendar days from b to a otherwise, and
\* diffInDays(a, b) = -diffInDays(b, a); the daysUntil of an agenda item is
\* that number for the item's date and today.
DiffDependsOnDates ==
    /\ \A x, y \in DiffArgs :
          LET n == SignedDays(toISO(x), toISO(y))
          IN  \A j, k \in 0..(TicksPerDay - 1) :
                 LET a == SameDayAt(x, j)
                     b == SameDayAt(y, k)
                 IN  /\ toISO(a) = toISO(b) => diffInDays(a, b) = 0
                     /\ diffInDays(a, b) = n
                     /\ diffInDays(b, a) = 0 - diffInDays(a, b)
    /\ (site = "agenda" /\ pc = "ret")
          => \A i \in 1..Len(evts) :
                evts[i].daysUntil = SignedDays(evts[i].date, toISO(today))

\* an item due today, computed when today is past midnight
DiffDependsOnDatesWitness ==
    /\ site = "agenda" /\ pc = "ret"
    /\ TimeOfDay(today) # 0
    /\ Len(evts) = 1
    /\ evts[1].daysUntil = 0
    /\ evts[1].date = toISO(today)

\* ------------------------------------------------------------------------
\* Key dates after an edit
\* ------------------------------------------------------------------------

\* the handler has answered ok:true
PatchedOk == ppc["a"] = "idle" /\ resp["a"].op = "PATCH" /\ resp["a"].ok

\* C20: after every PATCH that returns ok:true, the key_dates rows of the
\* agreement are exactly the rows buildKeyDates computes from the updated
\* agreement (no row of an earlier version remains, no new row is missing),
\* and key_dates_inserted is the number of rows stored.
FullRecomputation ==
    PatchedOk =>
        /\ keyDates = buildKeyDates(Val(store), today)
        /\ resp["a"].key_dates_inserted = Len(keyDates)

\* ------------------------------------------------------------------------
\* PATCH as a partial update
\* ------------------------------------------------------------------------

\* the update statement of the request being served runs
UpdateStep == ppc["a"] = "update" /\ ppc'["a"] = "delete"

\* C21: every agreement field the request body omits has the same stored
\* value after the PATCH as before it.
PartialUpdate ==
    [][UpdateStep =>
        /\ req["a"].body.end_on = Absent
              => Val(store').end_on = Val(store).end_on
        /\ req["a"].body.auto_renews = Absent
              => Val(store').auto_renews = Val(store).auto_renews
        /\ req["a"].body.notice_days = Absent
              => Val(store').notice_days = Val(store).notice_days
        /\ req["a"].body.renewal_frequency_months = Absent
              => Val(store').renewal_frequency_months
                    = Val(store).renewal_frequency_months]_vars

\* ------------------------------------------------------------------------
\* Key dates after an upload
\* ------------------------------------------------------------------------

\* the upload has answered with the inserted agreement
UploadedOk ==
    ppc["a"] = "idle" /\ resp["a"].op = "POST" /\ resp["a"].status = 200

\* the key_dates table holds a row of that kind on that day for the agreement
HasKeyDate(kind, iso) ==
    \E i \in 1..Len(keyDates) :
        /\ keyDates[i].agreement_id = Val(store).id
        /\ keyDates[i].event_kind = kind
        /\ keyDates[i].occurs_on = iso

\* C22: after a successful upload of an agreement with an end date, the stored
\* key dates hold a TERM_END at the end date and, for an auto-renewing
\* agreement, a RENEWAL at the end date and, when noticeDays > 0, a
\* NOTICE_DEADLINE noticeDays days before it.
UploadSeedsKeyDates ==
    (UploadedOk /\ ~IsNull(Val(store).end_on)) =>
        LET a   == Val(store)
            end == Val(a.end_on)
        IN  /\ HasKeyDate("TERM_END", end)
            /\ Val(a.auto_renews) =>
                 /\ HasKeyDate("RENEWAL", end)
                 /\ Val(a.notice_days) > 0 =>
                      HasKeyDate("NOTICE_DEADLINE",
                                 toISO(subDays(parseISO(end), Val(a.notice_days))))

\* ------------------------------------------------------------------------
\* Deleting an agreement
\* ------------------------------------------------------------------------

\* DELETE has answered ok:true
DeletedOk ==
    ppc["a"] = "idle" /\ resp["a"].op = "DELETE" /\ resp["a"].ok

\* the step in which the first request, a DELETE, answers with an error status
FirstDeleteRefused ==
    /\ served = 0
    /\ ppc["a"] \in DeletePositions
    /\ ppc'["a"] = "idle"
    /\ resp'["a"].status >= 400

\* C23: after DELETE answers ok:true neither the agreement row nor a key_dates
\* row of it remains; when DELETE answers with an error status, the agreement
\* row and its stored file are still there (the first request finds the file
\* of a stored agreement in the bucket).
DeleteAllOrNothing ==
    /\ [](DeletedOk => IsNull(store) /\ keyDates = <<>>)
    /\ [][FirstDeleteRefused /\ ~IsNull(store) => store' = store /\ file']_vars

\* ------------------------------------------------------------------------
\* The stored cadence
\* ------------------------------------------------------------------------

\* C24: a stored agreement that auto-renews has a positive
\* renewal_frequency_months, and no upload is refused because the cadence it
\* was given is not positive.
StoredCadence ==
    /\ (~IsNull(store) /\ Val(store).auto_renews = Some(TRUE)) =>
          /\ ~IsNull(Val(store).renewal_frequency_months)
          /\ Val(Val(store).renewal_frequency_months) > 0
    /\ \A p \in Procs : resp[p].error # "ZodError"

\* ------------------------------------------------------------------------
\* Renewals computed step by step
\* ------------------------------------------------------------------------

\* the date after applying addMonths(., c) k times to t
RECURSIVE Stepped(_, _, _)
Stepped(t, c, k) == IF k = 0 THEN t ELSE Stepped(addMonths(t, c), c, k - 1)

\* the cadence the call sites read from the raw field
RawFreq(a) ==
    IF ~IsNull(a.renewal_frequency_months) /\ Val(a.renewal_frequency_months) > 0
    THEN Val(a.renewal_frequency_months)
    ELSE 12

\* stepping from t by c months reaches the calendar day of the date target
\* within k steps
RECURSIVE StepsOnto(_, _, _, _)
StepsOnto(t, c, target, k) ==
    IF toISO(t) = toISO(target) THEN TRUE
    ELSE IF k = 0 \/ DayOf(t) > DayOf(target) THEN FALSE
    ELSE StepsOnto(addMonths(t, c), c, target, k - 1)

\* the end date of the row, or one of its renewal dates, is today's date
RenewsToday(a) ==
    /\ a.auto_renews = Some(TRUE)
    /\ ~IsNull(a.end_on)
    /\ StepsOnto(parseISO(Val(a.end_on)), RawFreq(a), today, LongGuard)

\* C25: the agenda of an auto-renewing agreement whose end date or a later
\* renewal date is today's date lists that renewal with daysUntil = 0,
\* whatever the time of day.
SameDayRenewal ==
    (AgendaDone /\ RenewsToday(agreements[1])) =>
        \E i \in 1..Len(all) :
            /\ all[i].type = "renewal"
            /\ all[i].date = toISO(today)
            /\ all[i].daysUntil = 0

\* C26: the renewal date reached after k passes of a loop, each applying
\* addMonths(., c), is addMonths(end_on, k * c): the anchor plus a multiple
\* of the cadence.
NoDrift ==
    (InLoop /\ guard <= SmallCap) =>
        /\ renewal = Stepped(parseISO(Val(Cur.end_on)), RawFreq(Cur), guard)
        /\ renewal = addMonths(parseISO(Val(Cur.end_on)), guard * RawFreq(Cur))

\* ------------------------------------------------------------------------
\* The log of the digest
\* ------------------------------------------------------------------------

\* the number of rows of the log for the agreement and the day
LoggedRows(table, a, iso) ==
    Cardinality({i \in 1..Len(table) :
                    /\ table[i].user_id = a.user_id
                    /\ table[i].agreement_id = a.id
                    /\ table[i].event_kind = "DAILY_DIGEST"
                    /\ table[i].occurs_on = iso})

\* a run has answered ok
DigestDone == dpc = "idle" /\ dresp = 200

\* C27 as stated: after a run every agreement of a user has exactly one row
\* of the log for the run date.
DigestLogsEveryRow ==
    DigestDone =>
        \A i \in 1..Len(agreements) :
            ~IsNull(agreements[i].user_id) =>
                LoggedRows(reminders, agreements[i], toISO(today)) = 1

\* the step in which the upsert of the rows of a user returns without error
LoggedStep ==
    /\ dpc = "users"
    /\ Len(dlog') = Len(dlog) + 1
    /\ dlog'[Len(dlog')] >= 0

\* C27: the log never holds two rows for the same user, agreement and run
\* date; a row once logged is never changed or removed; and an upsert that
\* returns without error leaves exactly one row for every agreement of the
\* user and the run date, adding as many rows as it reports.
DigestLogOnce ==
    /\ [](\A i \in 1..Len(agreements), d \in RunDates :
             LoggedRows(reminders, agreements[i], toISO(d)) <= 1)
    /\ [][/\ Len(reminders') >= Len(reminders)
          /\ \A i \in 1..Len(reminders) : reminders'[i] = reminders[i]]_vars
    /\ [][LoggedStep =>
            /\ \A i \in 1..Len(agreements) :
                  agreements[i].user_id = Head(dqueue) =>
                      LoggedRows(reminders', agreements[i], toISO(today)) = 1
            /\ Len(reminders') = Len(reminders) + dlog'[Len(dlog')]]_vars

\* a later run for the same run date has found every row logged already
DigestLogOnceWitness ==
    /\ runs >= 1
    /\ dlog # <<>>
    /\ dlog[Len(dlog)] = 0
    /\ \E i \in 1..Len(agreements) :
          LoggedRows(reminders, agreements[i], toISO(today)) = 1

\* ------------------------------------------------------------------------
\* Who may edit
\* ------------------------------------------------------------------------

\* the positions of the PATCH handler after the request arrived
PatchPositions == {"load", "update", "delete", "insert"}

\* C28: a PATCH whose x-user-id is not the user_id of the agreement (another
\* user, or no header) changes neither the row nor its key_dates and is
\* answered with an error status.
OwnerOnlyEdit ==
    [][(/\ ppc["a"] \in PatchPositions
        /\ ~IsNull(store)
        /\ req["a"].user # Val(store).user_id)
       => /\ store' = store
          /\ keyDates' = keyDates
          /\ ppc'["a"] = "idle" => resp'["a"].status >= 400]_vars

\* ------------------------------------------------------------------------
\* Key dates after two edits at the same time
\* ------------------------------------------------------------------------

\* both requests were answered ok:true
BothPatched ==
    /\ served = 2
    /\ \A p \in Procs : ppc[p] = "idle" /\ resp[p].op = "PATCH" /\ resp[p].ok

\* C29: when two PATCH requests for the agreement have run at the same time
\* and both are answered, the key_dates rows are those buildKeyDates gives
\* for the row that is stored, with no row twice.
ConcurrentEditsConverge ==
    BothPatched =>
        /\ keyDates = buildKeyDates(Val(store), today)
        /\ \A i, j \in 1..Len(keyDates) : keyDates[i] = keyDates[j] => i = j

\* ------------------------------------------------------------------------
\* Loads of the calendar view that were superseded
\* ------------------------------------------------------------------------

\* every run of the effect has come back and no effect is still to run
AllLoaded ==
    /\ ~pending
    /\ loads # <<>>
    /\ \A i \in 1..Len(loads) : ~loads[i].awaiting

\* a load comes back after the cleanup of its effect and the state of the
\* view is as before
LateLoadsWriteNothing ==
    \A i \in 1..Len(loads) :
        (loads[i].cancelled /\ loads[i].awaiting /\ ~loads'[i].awaiting) =>
            events' = events /\ error' = error /\ loading' = loading

\* C30 as stated: a superseded load writes nothing after its cleanup, and
\* once all loads have come back the events are those of the window of the
\* displayed month and loading is false.
NoStaleLoad ==
    /\ [][LateLoadsWriteNothing]_vars
    /\ [](AllLoaded =>
            /\ ~IsNull(events)
            /\ Val(events).window = displayed
            /\ loading = FALSE)

\* C30: a superseded load writes nothing after its cleanup; once all loads
\* have come back loading is false, the window of the last run is that of the
\* displayed month, and the events are those the last run computed for it
\* when it came back with the agreements, while error is set and the events
\* are left as they were when it threw.
NoStaleLoadWrites ==
    /\ [][LateLoadsWriteNothing]_vars
    /\ [](AllLoaded =>
            /\ loading = FALSE
            /\ loads[Len(loads)].window = displayed
            /\ loads[Len(loads)].wrote
            /\ IsNull(error) => (~IsNull(events) /\ Val(events).window = displayed))
    /\ [][\A i \in 1..Len(loads) :
            (~loads[i].cancelled /\ loads[i].awaiting /\ ~loads'[i].awaiting) =>
                /\ loading' = FALSE
                /\ IsNull(error') =>
                      (~IsNull(events') /\ Val(events').window = loads[i].window)
                /\ ~IsNull(error') => events' = events]_vars

\* the month changed while a load was in flight, that load came back after
\* its cleanup, and the load for the displayed month has come back too
NoStaleLoadWritesWitness ==
    /\ AllLoaded
    /\ Len(loads) >= 2
    /\ \E i \in 1..(Len(loads) - 1) :
          /\ ~loads[i].wrote
          /\ loads[i].window # displayed
    /\ ~IsNull(events)
    /\ Val(events).window = displayed

====
